---- MODULE Spec2Model ----
(***************************************************************************)
(* webstore_sleuth: the identity rotation middleware of the Scrapy         *)
(* back-end (ScrapyImpersonateSessionMiddleware) and the product           *)
(* extraction entry point (extract_product), modelled from the sources.    *)
(*                                                                         *)
(* Python values are modelled as follows.  A request's meta dictionary is  *)
(* a function whose DOMAIN is the set of keys present.  Python's None in   *)
(* the proxy position of an identity is the sentinel NoneVal.  Strings     *)
(* that are only compared or concatenated are TLA+ strings; strings that   *)
(* are scanned character by character are sequences of one-character       *)
(* strings.                                                                *)
(***************************************************************************)
EXTENDS Integers, Sequences, FiniteSets, TLC

VARIABLES
    settings,   \* the middleware's configuration, fixed at construction
    meta,       \* meta[r]: request.meta of lineage r, carried across retries
    log,        \* history: log[r] is the sequence of identities committed for r
    passes,     \* history: process_request passes seen by r at its current retry
    call,       \* the arguments of the extract_product call
    result,     \* its outcome: pending, a Product, None or an exception
    cfg,        \* the crawl: back-end, number of start URLs, concurrency limit
    producer,   \* position of the producer thread
    workers,    \* workers[j]: state of the per-URL crawler j and records it emitted
    queue,      \* the results queue
    consumer,   \* position of the generator crawl()
    yielded,    \* history: the records crawl() yielded, in order
    pushed,     \* history: everything put on the results queue, in order
    failures    \* the per-URL failures reported after the gather

schedVars == <<settings, meta, log, passes>>
extractVars == <<call, result>>

\* call and result while no extraction is in progress
Idle == [t |-> "idle"]

\* The crawl pipeline before any scraper is constructed.
CrawlIdle ==
    /\ cfg = Idle
    /\ producer = "unstarted"
    /\ workers = <<>>
    /\ queue = <<>>
    /\ consumer = "new"
    /\ yielded = <<>>
    /\ pushed = <<>>
    /\ failures = {}
crawlVars == <<cfg, producer, workers, queue, consumer, yielded, pushed, failures>>
vars == <<settings, meta, log, passes, call, result,
          cfg, producer, workers, queue, consumer, yielded, pushed, failures>>

(***************************************************************************)
(* Bounds of the model.                                                    *)
(***************************************************************************)
MaxRetries == 4        \* retries of one lineage (attempts 0..MaxRetries)
PairMaxRetries == 1    \* retries per lineage when two lineages run together
MaxPasses == 2         \* process_request passes per attempt
MaxOffers == 2         \* offers listed by one structured-data node
MaxCandidates == 2     \* structured-data nodes collected from one page
MaxPriceLen == 4       \* characters of a raw price string
MaxJobs == 3           \* start URLs of one crawl
MaxLimit == 2          \* max_parallel_crawlers
MaxRecords == 1        \* records one per-URL crawler emits
MaxDepth == 3          \* nesting depth of a structured-data tree

NoneVal == "None"

(***************************************************************************)
(* Configuration: settings.getlist("IMPERSONATE_BROWSERS") /               *)
(* settings.getlist("PROXIES") / settings.getbool("COOKIES_ENABLED").      *)
(***************************************************************************)
BrowserLists == { <<"chrome">>, <<"chrome", "safari">> }
\* settings.getlist("PROXIES") keeps the list as written, repeated entries
\* included.
ProxyLists ==
    { <<>>, <<"http://p1">>, <<"http://p1", "http://p2">>,
      <<"http://p1", "http://p1">> }

Range(s) == { s[i] : i \in DOMAIN s }

\* __init__, lines 30-32: no proxies configured means the single entry None.
Proxies(s) == IF s.proxies = <<>> THEN <<NoneVal>> ELSE s.proxies

\* __init__, line 35.
HasMultipleProxies(s) == Len(Proxies(s)) > 1

\* __init__, lines 39-41: itertools.product(browsers, proxies).
Pool(s) == Range(s.browsers) \X Range(Proxies(s))

(***************************************************************************)
(* request.meta access.                                                    *)
(***************************************************************************)
Has(m, k) == k \in DOMAIN m
Put(m, k, v) == (k :> v) @@ m
Del(m, k) == [x \in DOMAIN m \ {k} |-> m[x]]

\* request.meta.get(k) for the string-valued keys; None when absent.
GetStr(m, k) == IF Has(m, k) THEN m[k] ELSE NoneVal
\* request.meta.get(k) for the flags dont_impersonate / dont_proxy.
GetFlag(m, k) == IF Has(m, k) THEN m[k] ELSE FALSE
\* request.meta.get("retry_times", 0)
RetryTimes(m) == IF Has(m, "retry_times") THEN m["retry_times"] ELSE 0
\* request.meta.get("_impersonate_assigned_at"); -1 stands for None, which
\* equals no retry count.
AssignedAt(m) ==
    IF Has(m, "_impersonate_assigned_at") THEN m["_impersonate_assigned_at"] ELSE -1

(***************************************************************************)
(* _set_cookie_jar.  hashlib.md5(...).hexdigest()[:12] is a 48-bit digest; *)
(* over the handful of pair ids of a pool it is taken to be collision-free *)
(* and is written as the tagged pair id, so that two jar ids are equal     *)
(* exactly when the hashed strings are.                                    *)
(***************************************************************************)
\* Mutant of PairId: the proxy is left out of the hashed string.
PairIdBrowserOnly(browser, proxy) == browser \o "|" \o "local"

PairId(browser, proxy) ==
    browser \o "|" \o (IF proxy = NoneVal THEN "local" ELSE proxy)

Md5Hex12(str) == "md5:" \o str

\* Mutant of SetCookieJar: the jar id is recomputed on every assignment.
SetCookieJarOverwrite(s, m, browser, proxy) ==
    IF s.cookies_enabled
    THEN Put(m, "cookiejar", Md5Hex12(PairId(browser, proxy)))
    ELSE m

SetCookieJar(s, m, browser, proxy) ==
    IF s.cookies_enabled /\ GetStr(m, "cookiejar") = NoneVal
    THEN Put(m, "cookiejar", Md5Hex12(PairId(browser, proxy)))
    ELSE m

(***************************************************************************)
(* process_request, lines 74-100: the identities a new assignment may      *)
(* draw from.                                                              *)
(***************************************************************************)
\* Mutant of RetryFilter: a retry draws from the whole pool.
RetryFilterNoRotation(s, m) == Pool(s)

RetryFilter(s, m) ==
    IF HasMultipleProxies(s)
    THEN { p \in Pool(s) : p[2] # GetStr(m, "proxy") }
    ELSE { p \in Pool(s) : p[1] # GetStr(m, "impersonate") }

\* Mutant of Candidates: no failsafe when the retry filter leaves nothing.
CandidatesNoFailsafe(s, m) ==
    IF RetryTimes(m) > 0 THEN RetryFilter(s, m) ELSE Pool(s)

Candidates(s, m) ==
    IF RetryTimes(m) > 0
    THEN IF RetryFilter(s, m) = {} THEN Pool(s) ELSE RetryFilter(s, m)
    ELSE Pool(s)

\* Mutant of Assign: the assignment marker is not recorded.
AssignNoMarker(s, m, id) ==
    LET m1 == Put(m, "impersonate", id[1])
        m2 == IF GetFlag(m1, "dont_proxy") THEN m1
              ELSE IF id[2] # NoneVal THEN Put(m1, "proxy", id[2])
              ELSE Del(m1, "proxy")
    IN  SetCookieJar(s, m2, id[1], id[2])

\* process_request, lines 105-118, with (browser, proxy) the identity drawn.
Assign(s, m, id) ==
    LET m1 == Put(Put(m, "impersonate", id[1]),
                  "_impersonate_assigned_at", RetryTimes(m))
        m2 == IF GetFlag(m1, "dont_proxy") THEN m1
              ELSE IF id[2] # NoneVal THEN Put(m1, "proxy", id[2])
              ELSE Del(m1, "proxy")
    IN  SetCookieJar(s, m2, id[1], id[2])

\* Mutant of Pin: the caller's browser is replaced by the first configured one.
PinOverride(s, m) ==
    SetCookieJar(s, Put(Put(m, "_impersonate_assigned_at", 0),
                        "impersonate", s.browsers[1]),
                 s.browsers[1], GetStr(m, "proxy"))

\* process_request, lines 69-72: a browser set by the caller is kept for run 0.
Pin(s, m) ==
    SetCookieJar(s, Put(m, "_impersonate_assigned_at", 0),
                 GetStr(m, "impersonate"), GetStr(m, "proxy"))

\* The history entry of a commit: what was committed and what the request
\* carried before and after it.
Entry(kind, before, after, id) ==
    [ kind |-> kind,
      retry |-> RetryTimes(before),
      id |-> id,
      prev |-> <<GetStr(before, "impersonate"), GetStr(before, "proxy")>>,
      carried |-> <<GetStr(after, "impersonate"), GetStr(after, "proxy")>>,
      jar |-> GetStr(after, "cookiejar"),
      fresh |-> GetStr(before, "cookiejar") # GetStr(after, "cookiejar"),
      marker |-> AssignedAt(after) ]

Reqs == DOMAIN meta

(***************************************************************************)
(* One pass of process_request over the request of lineage r.              *)
(***************************************************************************)
process_request(r) ==
    LET m == meta[r] IN
    /\ passes[r] < MaxPasses
    /\ passes' = [passes EXCEPT ![r] = @ + 1]
    /\ UNCHANGED <<settings, extractVars, crawlVars>>
    /\ IF GetFlag(m, "dont_impersonate") \/ AssignedAt(m) = RetryTimes(m)
       THEN UNCHANGED <<meta, log>>
       ELSE IF GetStr(m, "impersonate") # NoneVal
               /\ ~Has(m, "_impersonate_assigned_at")
       THEN /\ meta' = [meta EXCEPT ![r] = Pin(settings, m)]
            /\ log' = [log EXCEPT ![r] =
                         Append(@, Entry("pinned", m, Pin(settings, m),
                                <<GetStr(m, "impersonate"), GetStr(m, "proxy")>>))]
       ELSE IF Candidates(settings, m) = {}
       THEN \* random.choice of an empty list raises IndexError
            /\ UNCHANGED meta
            /\ log' = [log EXCEPT ![r] =
                         Append(@, Entry("IndexError", m, m, <<NoneVal, NoneVal>>))]
       ELSE \E id \in Candidates(settings, m) :
            /\ meta' = [meta EXCEPT ![r] = Assign(settings, m, id)]
            /\ log' = [log EXCEPT ![r] =
                         Append(@, Entry("assigned", m, Assign(settings, m, id), id))]

(***************************************************************************)
(* The downloader's retry of a failed attempt: the request is copied with  *)
(* its meta and retry_times raised by one, and goes through the            *)
(* middleware again.                                                       *)
(***************************************************************************)
RetryLimit == IF Cardinality(Reqs) > 1 THEN PairMaxRetries ELSE MaxRetries

retry_request(r) ==
    /\ passes[r] >= 1
    /\ RetryTimes(meta[r]) < RetryLimit
    /\ meta' = [meta EXCEPT ![r] = Put(@, "retry_times", RetryTimes(@) + 1)]
    /\ passes' = [passes EXCEPT ![r] = 0]
    /\ UNCHANGED <<settings, log, extractVars, crawlVars>>

(***************************************************************************)
(* Initial states: a configuration and, per lineage, the meta the spider   *)
(* gave the request.                                                       *)
(***************************************************************************)
Settings ==
    [ browsers : BrowserLists, proxies : ProxyLists, cookies_enabled : BOOLEAN ]

\* The optional keys a spider may set before the first dispatch.
WithOpt(ms, k, vals) == ms \cup { Put(m, k, v) : m \in ms, v \in vals }

InitialMetas ==
    WithOpt(WithOpt(WithOpt(WithOpt(WithOpt({ <<>> },
        "dont_impersonate", {TRUE}),
        "impersonate", {"chrome", "edge"}),
        "proxy", {"http://p1"}),
        "dont_proxy", {TRUE}),
        "cookiejar", {"spider-jar"})

Init ==
    /\ settings \in Settings
    /\ meta \in [{1} -> InitialMetas]
    /\ log = [r \in {1} |-> <<>>]
    /\ passes = [r \in {1} |-> 0]
    /\ call = Idle
    /\ result = Idle
    /\ CrawlIdle

Next ==
    \/ \E r \in Reqs : process_request(r)
    \/ \E r \in Reqs : retry_request(r)

Spec == Init /\ [][Next]_vars

(***************************************************************************)
(* Python values of the extraction code.  A value is a record tagged by    *)
(* its type: None, a string (its characters), a number (the characters of  *)
(* str(number)), a Decimal, a dict (a function over the keys present) or a *)
(* list.  The non-breaking space U+00A0 is the character written "NBSP".   *)
(***************************************************************************)
NoneV == [t |-> "none"]
StrV(chars) == [t |-> "str", v |-> chars]
NumV(chars) == [t |-> "num", v |-> chars]
DictV(f) == [t |-> "dict", v |-> f]
ListV(seq) == [t |-> "list", v |-> seq]
DecV(neg, coef, exp) == [t |-> "dec", neg |-> neg, coef |-> coef, exp |-> exp]
BoolV(b) == [t |-> "bool", v |-> b]

IsNone(x) == x.t = "none"
IsStr(x) == x.t = "str"
IsNum(x) == x.t = "num"
IsDict(x) == x.t = "dict"
IsList(x) == x.t = "list"
IsDec(x) == x.t = "dec"

Digits == {"0", "1", "2", "3", "4", "5", "6", "7", "8", "9"}
Whitespace == {" ", "NBSP"}

DigitVal(c) ==
    CASE c = "0" -> 0 [] c = "1" -> 1 [] c = "2" -> 2 [] c = "3" -> 3
      [] c = "4" -> 4 [] c = "5" -> 5 [] c = "6" -> 6 [] c = "7" -> 7
      [] c = "8" -> 8 [] c = "9" -> 9

Min(S) == CHOOSE x \in S : \A y \in S : x <= y
Max(S) == CHOOSE x \in S : \A y \in S : x >= y

\* str.strip()
Strip(s) ==
    LET keep == { i \in DOMAIN s : s[i] \notin Whitespace }
    IN  IF keep = {} THEN <<>> ELSE SubSeq(s, Min(keep), Max(keep))

\* str.count(c), str.replace(c, ""), str.replace(a, b), str.rfind(c) for
\* one-character arguments (positions from 1, 0 when absent).
Count(s, c) == Cardinality({ i \in DOMAIN s : s[i] = c })
Remove(s, c) == SelectSeq(s, LAMBDA x : x # c)
Replace(s, a, b) == [i \in DOMAIN s |-> IF s[i] = a THEN b ELSE s[i]]
RFind(s, c) == IF Count(s, c) = 0 THEN 0 ELSE Max({ i \in DOMAIN s : s[i] = c })

(***************************************************************************)
(* decimal.Decimal(str): an optional sign, then digits with at most one    *)
(* decimal point and at least one digit (the strings reaching it hold only *)
(* digits, ".", "-" and "+").  A Decimal is sign, coefficient and number   *)
(* of fractional digits.                                                   *)
(***************************************************************************)
RECURSIVE DigitsToNat(_)
DigitsToNat(ds) ==
    IF ds = <<>> THEN 0
    ELSE 10 * DigitsToNat(SubSeq(ds, 1, Len(ds) - 1)) + DigitVal(ds[Len(ds)])

DecimalBody(s) == IF s # <<>> /\ s[1] \in {"+", "-"} THEN Tail(s) ELSE s

DecimalSyntax(s) ==
    LET b == DecimalBody(s)
    IN  /\ \A i \in DOMAIN b : b[i] \in Digits \cup {"."}
        /\ Count(b, ".") <= 1
        /\ \E i \in DOMAIN b : b[i] \in Digits

\* Decimal(s) for a string of valid syntax.
ToDecimal(s) ==
    LET b == DecimalBody(s)
    IN  DecV(s[1] = "-",
             DigitsToNat(Remove(b, ".")),
             IF Count(b, ".") = 0 THEN 0 ELSE Len(b) - RFind(b, "."))

DecNegative(d) == d.neg /\ d.coef > 0      \* d < 0
DecPositive(d) == ~d.neg /\ d.coef > 0     \* d > 0

(***************************************************************************)
(* utils/converters.py                                                     *)
(***************************************************************************)
NumberChunkChars == Digits \cup {".", ",", "-", "+"}

\* _RE_NUMBER_CHUNK.search(s): the first maximal run of [\d\.,\-+], or <<>>
\* when there is no match.
NumberChunk(s) ==
    LET hits == { i \in DOMAIN s : s[i] \in NumberChunkChars }
    IN  IF hits = {} THEN <<>>
        ELSE LET first == Min(hits)
                 last == Max({ j \in first .. Len(s) :
                                 \A k \in first .. j : s[k] \in NumberChunkChars })
             IN  SubSeq(s, first, last)

\* The separators resolved with the first separator, not the last, deciding
\* the mixed case.
CleanNumberFirst(raw_num) ==
    LET dot_count == Count(raw_num, ".")
        comma_count == Count(raw_num, ",")
    IN  IF dot_count > 0 /\ comma_count > 0
        THEN IF RFind(raw_num, ".") < RFind(raw_num, ",")
             THEN Remove(raw_num, ",")
             ELSE Replace(Remove(raw_num, "."), ",", ".")
        ELSE IF comma_count > 0 /\ dot_count = 0
        THEN IF Len(raw_num) - RFind(raw_num, ",") > 2
             THEN Remove(raw_num, ",")
             ELSE Replace(raw_num, ",", ".")
        ELSE IF dot_count > 1
        THEN Remove(raw_num, ".")
        ELSE raw_num

\* The separators resolved with commas always read as decimal points.
CleanNumberDecimalComma(raw_num) ==
    LET dot_count == Count(raw_num, ".")
        comma_count == Count(raw_num, ",")
    IN  IF dot_count > 0 /\ comma_count > 0
        THEN IF RFind(raw_num, ".") > RFind(raw_num, ",")
             THEN Remove(raw_num, ",")
             ELSE Replace(Remove(raw_num, "."), ",", ".")
        ELSE IF comma_count > 0 /\ dot_count = 0
        THEN Replace(raw_num, ",", ".")
        ELSE IF dot_count > 1
        THEN Remove(raw_num, ".")
        ELSE raw_num

\* parse_price, lines 42-85: the separators of the numeric run resolved.
CleanNumber(raw_num) ==
    LET dot_count == Count(raw_num, ".")
        comma_count == Count(raw_num, ",")
    IN  IF dot_count > 0 /\ comma_count > 0
        THEN IF RFind(raw_num, ".") > RFind(raw_num, ",")
             THEN Remove(raw_num, ",")
             ELSE Replace(Remove(raw_num, "."), ",", ".")
        ELSE IF comma_count > 0 /\ dot_count = 0
        THEN IF Len(raw_num) - RFind(raw_num, ",") > 2
             THEN Remove(raw_num, ",")
             ELSE Replace(raw_num, ",", ".")
        ELSE IF dot_count > 1
        THEN Remove(raw_num, ".")
        ELSE raw_num

Raised(exc) == [t |-> "raise", exc |-> exc]
IsRaised(x) == x.t = "raise"

\* parse_price on a string without the final sign test of lines 92-93.
ParsePriceStrSigned(chars) ==
    LET s == Strip(chars)
        raw_num == NumberChunk(Remove(s, "NBSP"))
        clean_num == CleanNumber(raw_num)
    IN  IF s = <<>> THEN NoneV
        ELSE IF raw_num = <<>> THEN Raised("ValueError")
        ELSE IF ~DecimalSyntax(clean_num) THEN Raised("ValueError")
        ELSE ToDecimal(clean_num)

\* parse_price on a string, lines 30-95.
ParsePriceStr(chars) ==
    LET s == Strip(chars)
        raw_num == NumberChunk(Remove(s, "NBSP"))
        clean_num == CleanNumber(raw_num)
    IN  IF s = <<>> THEN NoneV
        ELSE IF raw_num = <<>> THEN Raised("ValueError")
        ELSE IF ~DecimalSyntax(clean_num) THEN Raised("ValueError")
        ELSE IF DecNegative(ToDecimal(clean_num)) THEN Raised("ValueError")
        ELSE ToDecimal(clean_num)

\* parse_price: None, a Decimal, or an exception raised.  A bool is an int
\* whose str() is no Decimal literal: line 25 raises decimal.InvalidOperation,
\* which the numeric branch does not convert.
parse_price(value) ==
    IF IsNone(value) THEN NoneV
    ELSE IF IsDec(value)
    THEN IF DecNegative(value) THEN Raised("ValueError") ELSE value
    ELSE IF IsNum(value)
    THEN IF DecNegative(ToDecimal(value.v)) THEN Raised("ValueError")
         ELSE ToDecimal(value.v)
    ELSE IF IsStr(value) THEN ParsePriceStr(value.v)
    ELSE IF value.t = "bool" THEN Raised("InvalidOperation")
    ELSE Raised("ValueError")

\* ensure_list
ensure_list(v) ==
    IF IsNone(v) THEN <<>> ELSE IF IsList(v) THEN v.v ELSE <<v>>

\* dateutil's isoparse(str(s)) on the year-only form "YYYY" (the first
\* instant of that year, taken as UTC); every other string of the model is
\* one isoparse rejects.  Instants are counted in half years: the start of
\* year Y is 2 * Y.
parse_iso_date(s) ==
    IF (IsStr(s) \/ IsNum(s)) /\ Len(s.v) = 4 /\ \A i \in DOMAIN s.v : s.v[i] \in Digits
    THEN [t |-> "time", v |-> 2 * DigitsToNat(s.v)]
    ELSE NoneV

(***************************************************************************)
(* Python's truth value, `a or b`, str(x), dict.get, str.lower,            *)
(* `sub in s` and s.split("/")[-1].                                        *)
(***************************************************************************)
Truthy(x) ==
    CASE x.t = "none" -> FALSE
      [] x.t = "str" -> x.v # <<>>
      [] x.t = "num" -> ToDecimal(x.v).coef # 0
      [] x.t = "dec" -> x.coef # 0
      [] x.t = "dict" -> DOMAIN x.v # {}
      [] x.t = "list" -> x.v # <<>>
      [] x.t = "bool" -> x.v
      [] x.t = "time" -> TRUE

Or(a, b) == IF Truthy(a) THEN a ELSE b

\* str(x) for the values the model passes to it: a string, a number, None.
StrOf(x) ==
    IF IsStr(x) \/ IsNum(x) THEN x.v
    ELSE IF IsNone(x) THEN <<"N", "o", "n", "e">>
    ELSE <<"{", "}">>

DictGet(d, k) == IF k \in DOMAIN d THEN d[k] ELSE NoneV

LowerChar(c) ==
    CASE c = "A" -> "a" [] c = "B" -> "b" [] c = "C" -> "c" [] c = "D" -> "d"
      [] c = "E" -> "e" [] c = "F" -> "f" [] c = "G" -> "g" [] c = "H" -> "h"
      [] c = "I" -> "i" [] c = "J" -> "j" [] c = "K" -> "k" [] c = "L" -> "l"
      [] c = "M" -> "m" [] c = "N" -> "n" [] c = "O" -> "o" [] c = "P" -> "p"
      [] c = "Q" -> "q" [] c = "R" -> "r" [] c = "S" -> "s" [] c = "T" -> "t"
      [] c = "U" -> "u" [] c = "V" -> "v" [] c = "W" -> "w" [] c = "X" -> "x"
      [] c = "Y" -> "y" [] c = "Z" -> "z" [] OTHER -> c

Lower(s) == [i \in DOMAIN s |-> LowerChar(s[i])]

Contains(s, sub) ==
    \E i \in 1 .. (Len(s) - Len(sub) + 1) : SubSeq(s, i, i + Len(sub) - 1) = sub

AfterLastSlash(s) == SubSeq(s, RFind(s, "/") + 1, Len(s))

(***************************************************************************)
(* product_schema_extractor.py                                             *)
(***************************************************************************)
GTIN_KEYS == <<"gtin", "gtin8", "gtin12", "gtin13", "gtin14", "ean", "isbn">>

\* get_first_nonempty(*args)
get_first_nonempty(args) ==
    LET hits == { i \in DOMAIN args :
                    \/ IsStr(args[i]) /\ Strip(args[i].v) # <<>>
                    \/ IsNum(args[i]) \/ IsDec(args[i]) }
    IN  IF hits = {} THEN NoneV
        ELSE IF IsStr(args[Min(hits)]) THEN StrV(Strip(args[Min(hits)].v))
        ELSE StrV(StrOf(args[Min(hits)]))

\* ProductCandidate.__init__: self.offers
Offers(raw) == SelectSeq(ensure_list(DictGet(raw, "offers")), IsDict)

\* ProductCandidate.title / .description
title(raw) == get_first_nonempty(<<DictGet(raw, "name")>>)
description(raw) == get_first_nonempty(<<DictGet(raw, "description")>>)

\* The entries of raw["identifier"] or raw["additionalProperty"] that are
\* dicts, and the lower-cased propertyID-or-name of one.
Identifiers(raw) ==
    SelectSeq(ensure_list(Or(DictGet(raw, "identifier"),
                             DictGet(raw, "additionalProperty"))), IsDict)

PropertyId(ident) ==
    Lower(StrOf(Or(Or(DictGet(ident.v, "propertyID"), DictGet(ident.v, "name")),
                   StrV(<<>>))))

\* ProductCandidate.mpn
mpn(raw) ==
    LET hits == { i \in DOMAIN Identifiers(raw) :
                    PropertyId(Identifiers(raw)[i]) \in
                        { <<"m", "p", "n">>,
                          <<"m", "a", "n", "u", "f", "a", "c", "t", "u", "r", "e", "r",
                            " ", "p", "a", "r", "t", " ", "n", "u", "m", "b", "e", "r">> } }
    IN  IF Truthy(DictGet(raw, "mpn")) THEN StrV(StrOf(DictGet(raw, "mpn")))
        ELSE IF hits = {} THEN NoneV
        ELSE StrV(StrOf(DictGet(Identifiers(raw)[Min(hits)].v, "value")))

\* ProductCandidate.best_offer: score(o)
OfferScore(o) ==
    LET avail == Lower(StrOf(Or(DictGet(o.v, "availability"), StrV(<<>>))))
    IN  << IF Contains(avail, <<"i", "n", "s", "t", "o", "c", "k">>) THEN 0
           ELSE IF \/ Contains(avail, <<"o", "u", "t", "o", "f", "s", "t", "o", "c", "k">>)
                   \/ Contains(avail, <<"s", "o", "l", "d", "o", "u", "t">>)
                THEN 2 ELSE 1,
           IF Truthy(DictGet(o.v, "price")) THEN 0 ELSE 1 >>

ScoreLess(a, b) == a[1] < b[1] \/ (a[1] = b[1] /\ a[2] < b[2])

\* ProductCandidate.best_offer: min(self.offers, key=score), the first of the
\* offers of least score; {} without offers.
best_offer(raw) ==
    LET offers == Offers(raw)
        best == { i \in DOMAIN offers :
                    \A j \in DOMAIN offers :
                        ~ScoreLess(OfferScore(offers[j]), OfferScore(offers[i])) }
    IN  IF offers = <<>> THEN DictV(<<>>) ELSE offers[Min(best)]

\* offer.get("priceSpecification") or {}
PriceSpec(raw) == Or(DictGet(best_offer(raw).v, "priceSpecification"), DictV(<<>>))

\* ProductCandidate.price; price_spec.get on a value that is no dict raises
\* AttributeError.
price(raw) ==
    IF ~IsDict(PriceSpec(raw)) THEN Raised("AttributeError")
    ELSE parse_price(get_first_nonempty(
            << DictGet(best_offer(raw).v, "price"), DictGet(PriceSpec(raw).v, "price") >>))

\* ProductCandidate.currency
currency(raw) ==
    IF ~IsDict(PriceSpec(raw)) THEN Raised("AttributeError")
    ELSE get_first_nonempty(<< DictGet(best_offer(raw).v, "priceCurrency"),
                               DictGet(PriceSpec(raw).v, "priceCurrency") >>)

\* ProductCandidate.ean
ean(raw) ==
    LET sources == <<raw>> \o (IF Offers(raw) # <<>> THEN <<best_offer(raw).v>> ELSE <<>>)
        n == Len(GTIN_KEYS)
        \* position (source, key) in the order of the two nested loops
        keyHits == { p \in 0 .. (Len(sources) * n - 1) :
                       Truthy(DictGet(sources[(p \div n) + 1], GTIN_KEYS[(p % n) + 1])) }
        idHits == { i \in DOMAIN Identifiers(raw) :
                      \E k \in { <<"g", "t", "i", "n">>, <<"e", "a", "n">>,
                                 <<"i", "s", "b", "n">> } :
                          Contains(PropertyId(Identifiers(raw)[i]), k) }
    IN  IF keyHits # {}
        THEN StrV(StrOf(DictGet(sources[(Min(keyHits) \div n) + 1],
                                GTIN_KEYS[(Min(keyHits) % n) + 1])))
        ELSE IF idHits = {} THEN NoneV
        ELSE StrV(StrOf(DictGet(Identifiers(raw)[Min(idHits)].v, "value")))

ContainsAny(s, subs) == \E sub \in subs : Contains(s, sub)

\* ProductCandidate.is_active at the instant `now`: a bool, or the exception
\* raised by self.price.
is_active(raw, now) ==
    LET offer == best_offer(raw).v
        token == Lower(AfterLastSlash(StrOf(Or(DictGet(offer, "availability"), StrV(<<>>)))))
        vf == parse_iso_date(Or(DictGet(offer, "validFrom"), DictGet(raw, "validFrom")))
        vt == parse_iso_date(Or(Or(DictGet(offer, "validThrough"),
                                   DictGet(offer, "priceValidUntil")),
                                DictGet(raw, "validThrough")))
    IN  IF ContainsAny(token, { <<"o", "u", "t", "o", "f", "s", "t", "o", "c", "k">>,
                                <<"s", "o", "l", "d", "o", "u", "t">>,
                                <<"d", "i", "s", "c", "o", "n", "t", "i", "n", "u", "e", "d">> })
        THEN BoolV(FALSE)
        ELSE IF ContainsAny(token, { <<"i", "n", "s", "t", "o", "c", "k">>,
                                     <<"a", "v", "a", "i", "l", "a", "b", "l", "e">> })
        THEN BoolV(TRUE)
        ELSE IF ~IsNone(vf) /\ now < vf.v THEN BoolV(FALSE)
        ELSE IF ~IsNone(vt) /\ now > vt.v THEN BoolV(FALSE)
        ELSE IF IsRaised(price(raw)) THEN price(raw)
        ELSE BoolV(Truthy(price(raw)) /\ DecPositive(price(raw)))

\* ProductExtractor.extract_from_html on the candidates collected from the
\* page: the nodes whose "@type" holds a token containing "product", and of
\* these the first of greatest completeness; None when there is none.  The
\* filter calls c.get on every candidate, so a candidate that is a
\* SchemaEntity object and not a dict raises AttributeError.
IsProductType(c) ==
    LET types == IF "@type" \in DOMAIN c.v THEN c.v["@type"] ELSE ListV(<<>>)
    IN  /\ IsList(types)
        /\ \E i \in DOMAIN types.v :
              /\ IsStr(types.v[i])
              /\ Contains(types.v[i].v, <<"p", "r", "o", "d", "u", "c", "t">>)

Bool01(b) == IF b THEN 1 ELSE 0

Completeness(raw) ==
    Bool01(Truthy(title(raw))) + Bool01(Offers(raw) # <<>>)
        + Bool01(Truthy(description(raw)))

extract_from_html(candidates) ==
    LET products == SelectSeq(candidates, IsProductType)
        best == { i \in DOMAIN products :
                    \A j \in DOMAIN products :
                        Completeness(products[j].v) <= Completeness(products[i].v) }
    IN  IF \E i \in DOMAIN candidates : ~IsDict(candidates[i])
        THEN Raised("AttributeError")
        ELSE IF products = <<>> THEN NoneV ELSE products[Min(best)]


(***************************************************************************)
(* schemas.py: the construction of a Product.  A StrippedString field      *)
(* takes a str and strips it; price goes through validate_price; any       *)
(* failure is a ValidationError.                                           *)
(***************************************************************************)
StrippedString(v) ==
    IF IsStr(v) THEN StrV(Strip(v.v)) ELSE Raised("ValidationError")

OptionalStrippedString(v) == IF IsNone(v) THEN NoneV ELSE StrippedString(v)

validate_price(v) == parse_price(v)

Product(data) ==
    LET p == [ t |-> "product",
               url |-> StrippedString(data.url),
               title |-> StrippedString(data.title),
               description |-> OptionalStrippedString(data.description),
               price |-> validate_price(data.price),
               currency |-> OptionalStrippedString(data.currency),
               ean |-> OptionalStrippedString(data.ean),
               mpn |-> OptionalStrippedString(data.mpn),
               is_active |-> data.is_active ]
    IN  IF \E f \in {"url", "title", "description", "price", "currency", "ean", "mpn"} :
              IsRaised(p[f])
        THEN Raised("ValidationError")
        ELSE p

(***************************************************************************)
(* product_schema_extractor.py: extract_product.  c is the call: the       *)
(* candidates collected from the page, the url, the overrides and the      *)
(* instant of the call.  The result is a Product, None, or the exception   *)
(* that leaves the function.                                               *)
(***************************************************************************)
Candidate(c) == extract_from_html(c.candidates)

FinalPrice(c, ext_price) == Or(c.price, ext_price)

\* lines 256-264: the activity flag after the manual-price patch
ExtActive(c, ext_price, ext_active) ==
    IF /\ ~Truthy(ext_active)
       /\ Truthy(FinalPrice(c, ext_price))
       /\ ~Truthy(ext_price)
    THEN BoolV(TRUE)
    ELSE ext_active

\* lines 266-281: the merge with the overrides and the construction
Merge(c, raw, has, ext_price, ext_curr, ext_active) ==
    LET data == [ url |-> c.url,
                  title |-> Or(c.title, IF has THEN title(raw) ELSE NoneV),
                  description |-> Or(c.description,
                                     IF has THEN description(raw) ELSE NoneV),
                  price |-> FinalPrice(c, ext_price),
                  currency |-> Or(c.currency, ext_curr),
                  ean |-> Or(c.ean, IF has THEN ean(raw) ELSE NoneV),
                  mpn |-> Or(c.mpn, IF has THEN mpn(raw) ELSE NoneV),
                  is_active |-> IF has THEN ExtActive(c, ext_price, ext_active)
                                ELSE ext_active ]
    IN  IF IsRaised(Product(data)) THEN NoneV ELSE Product(data)

extract_product(c) ==
    LET candidate == Candidate(c)
        has == IsDict(candidate)
        raw == candidate.v
        ext_price == IF has THEN price(raw) ELSE NoneV
        ext_curr == IF has THEN currency(raw) ELSE NoneV
        ext_active == IF has THEN is_active(raw, c.now) ELSE BoolV(FALSE)
    IN  IF IsRaised(candidate) THEN candidate
        ELSE IF IsRaised(ext_price) THEN ext_price
        ELSE IF IsRaised(ext_curr) THEN ext_curr
        ELSE IF IsRaised(ext_active) THEN ext_active
        ELSE Merge(c, raw, has, ext_price, ext_curr, ext_active)


(***************************************************************************)
(* The calls of extract_product.  A page is given by the candidates its    *)
(* structured data normalises to: dicts with a lower-cased "@type" list,   *)
(* which is what the extractor reads, or SchemaEntity objects.             *)
(***************************************************************************)
Pending == [t |-> "pending"]
EntityV == [t |-> "entity"]

SeqsOf(S, lo, hi) == UNION { [1 .. n -> S] : n \in lo .. hi }

TextTea == StrV(<<"T", "e", "a">>)
TextBlank == StrV(<<" ">>)
TextEmpty == StrV(<<>>)
TextEUR == StrV(<<"E", "U", "R">>)
TextGtin == StrV(<<"4", "0", "0", "6", "3", "8", "1", "3", "3", "3", "9", "3", "1">>)
TextInStock ==
    StrV(<<"h", "t", "t", "p", "s", ":", "/", "/", "s", "c", "h", "e", "m", "a", ".",
           "o", "r", "g", "/", "I", "n", "S", "t", "o", "c", "k">>)
TextOutOfStock == StrV(<<"O", "u", "t", "O", "f", "S", "t", "o", "c", "k">>)
TextUrl == StrV(<<"h", "t", "t", "p", ":", "/", "/", "s", "/", "1">>)

PriceTexts ==
    { StrV(<<"9", ".", "9", "9">>),
      StrV(<<"1", ".", "2", "0", "0", ",", "5", "0">>),
      StrV(<<"N", "/", "A">>),
      StrV(<<"-", "5", ".", "0", "0">>),
      NumV(<<"1", "2">>),
      NumV(<<"-", "1">>) }

SpecDict == DictV(("price" :> StrV(<<"7", ",", "5", "0">>)) @@ ("priceCurrency" :> TextEUR))

OfferDicts ==
    WithOpt(WithOpt(WithOpt({ <<>> },
        "price", PriceTexts),
        "availability", {TextInStock, TextOutOfStock}),
        "priceSpecification", {SpecDict, ListV(<<SpecDict>>)})
    \cup
    WithOpt(WithOpt({ <<>>, "price" :> StrV(<<"9", ".", "9", "9">>) },
        "priceCurrency", {TextEUR}),
        "validThrough", {StrV(<<"2", "0", "2", "0">>)})

SmallOffers ==
    { DictV("price" :> StrV(<<"9", ".", "9", "9">>)),
      DictV(("price" :> StrV(<<"N", "/", "A">>)) @@ ("availability" :> TextInStock)),
      DictV("availability" :> TextOutOfStock),
      StrV(<<"x">>) }

ProductType == ListV(<<StrV(<<"p", "r", "o", "d", "u", "c", "t">>)>>)

IdentifierList ==
    ListV(<< DictV(("propertyID" :> StrV(<<"M", "P", "N">>)) @@ ("value" :> StrV(<<"M", "1">>))),
             DictV("name" :> StrV(<<"E", "A", "N">>)) >>)

\* Product nodes with at most one offer, given as a dict.
ProductNodes ==
    { DictV(n) :
        n \in WithOpt(WithOpt(WithOpt({ "@type" :> ProductType },
                "name", {TextTea, TextBlank}),
                "description", {StrV(<<"D">>)}),
                "offers", { DictV(o) : o \in OfferDicts }) }

\* Product nodes with a list of offers.
ListedNodes ==
    { DictV(("@type" :> ProductType) @@ ("name" :> TextTea) @@ ("gtin13" :> TextGtin)
                @@ ("offers" :> ListV(q))) :
        q \in SeqsOf(SmallOffers, 2, MaxOffers) }

SmallCandidates ==
    { DictV("@type" :> ListV(<<StrV(<<"o", "f", "f", "e", "r">>)>>)),
      DictV(("@type" :> ProductType) @@ ("name" :> TextTea)),
      DictV(("@type" :> ProductType) @@ ("name" :> StrV(<<"M", "u", "g">>))
                @@ ("offers" :> DictV("price" :> NumV(<<"3">>)))
                @@ ("identifier" :> IdentifierList)),
      DictV(("@type" :> ProductType) @@ ("name" :> TextTea) @@ ("mpn" :> TextBlank)),
      EntityV }

Pages ==
    {<<>>} \cup { <<n>> : n \in ProductNodes \cup ListedNodes \cup SmallCandidates }
        \cup SeqsOf(SmallCandidates, 2, MaxCandidates)

\* The instants of the calls: the middle of 2019 and of 2021.
Nows == { 2 * 2019 + 1, 2 * 2021 + 1 }

\* Calls that override the optional text fields.
OverrideCalls ==
    [ candidates : { <<>>, <<DictV(("@type" :> ProductType) @@ ("name" :> TextTea))>> },
      url : {TextUrl},
      title : {StrV(<<"O">>)},
      description : {NoneV, TextBlank, StrV(<<"D">>)},
      price : {NoneV},
      currency : {NoneV, TextBlank, TextEUR},
      ean : {NoneV, TextBlank},
      mpn : {NoneV, TextBlank},
      now : Nows ]

Calls ==
    OverrideCalls \cup
    [ candidates : Pages,
      url : {TextUrl},
      title : {NoneV, TextEmpty, TextBlank, StrV(<<"O">>)},
      description : {NoneV},
      price : {NoneV, StrV(<<"5">>), StrV(<<"a", "b", "c">>), NumV(<<"-", "1">>)},
      currency : {NoneV},
      ean : {NoneV},
      mpn : {NoneV},
      now : Nows ]

\* One call of extract_product and its outcome.
call_extract_product ==
    /\ result = Pending
    /\ result' = extract_product(call)
    /\ UNCHANGED <<call, schedVars, crawlVars>>

InitExtract ==
    /\ settings = [browsers |-> <<"chrome">>, proxies |-> <<>>, cookies_enabled |-> TRUE]
    /\ meta = <<>>
    /\ log = <<>>
    /\ passes = <<>>
    /\ call \in Calls
    /\ result = Pending
    /\ CrawlIdle

NextExtract == call_extract_product

SpecExtract == InitExtract /\ [][NextExtract]_vars

(***************************************************************************)
(* The calls of parse_price, directly and through the price validator of   *)
(* Product.                                                                *)
(***************************************************************************)
PriceChars == {"0", "1", "5", ".", ",", "-", " ", "NBSP", "x"}

\* The price strings named in the comments of parse_price (lines 52-85) and
\* two strings with a currency around the number.
PriceSamples ==
    { <<"1", "9", ",", "9", "9">>,
      <<"1", "2", ",", "5">>,
      <<"1", ",", "0", "0", "0">>,
      <<"1", ".", "2", "0", "0", ",", "5", "0">>,
      <<"1", ",", "2", "0", "0", ".", "5", "0">>,
      <<"1", ".", "0", "0", "0", ".", "0", "0", "0">>,
      <<"1", ",", "0", "0", "0", ",", "0", "0">>,
      <<"x", " ", "1", ".", "2", "0", "0", ",", "5", "0">>,
      <<"1", "9", ",", "9", "9", "NBSP", "x">> }

PriceInputs ==
    {NoneV, BoolV(TRUE)}
        \cup { StrV(q) : q \in SeqsOf(PriceChars, 0, MaxPriceLen) \cup PriceSamples }
        \cup { NumV(<<"0">>), NumV(<<"5">>), NumV(<<"-", "1">>),
               NumV(<<"1", "2", ".", "5">>), NumV(<<"-", "0", ".", "5">>) }
        \cup { DecV(neg, coef, 2) : neg \in BOOLEAN, coef \in {0, 999} }

\* parse_price(value)
call_parse_price ==
    /\ result = Pending
    /\ call.t = "price"
    /\ result' = parse_price(call.value)
    /\ UNCHANGED <<call, schedVars, crawlVars>>

\* Product(url=..., title=..., price=value)
call_Product ==
    /\ result = Pending
    /\ call.t = "price"
    /\ result' = Product([ url |-> TextUrl, title |-> TextTea, description |-> NoneV,
                           price |-> call.value, currency |-> NoneV, ean |-> NoneV,
                           mpn |-> NoneV, is_active |-> NoneV ])
    /\ UNCHANGED <<call, schedVars, crawlVars>>

InitPrice ==
    /\ settings = [browsers |-> <<"chrome">>, proxies |-> <<>>, cookies_enabled |-> TRUE]
    /\ meta = <<>>
    /\ log = <<>>
    /\ passes = <<>>
    /\ call \in { [t |-> "price", value |-> v] : v \in PriceInputs }
    /\ result = Pending
    /\ CrawlIdle

NextPrice == call_parse_price \/ call_Product

SpecPrice == InitPrice /\ [][NextPrice]_vars

(***************************************************************************)
(* Two lineages dispatched through the same middleware instance.           *)
(***************************************************************************)
PairMetas ==
    WithOpt(WithOpt(WithOpt({ <<>> },
        "impersonate", {"chrome"}),
        "proxy", {"http://p1"}),
        "dont_proxy", {TRUE})

InitPair ==
    /\ settings \in Settings
    /\ meta \in [{1, 2} -> PairMetas]
    /\ log = [r \in {1, 2} |-> <<>>]
    /\ passes = [r \in {1, 2} |-> 0]
    /\ call = Idle
    /\ result = Idle
    /\ CrawlIdle

SpecPair == InitPair /\ [][Next]_vars

(***************************************************************************)
(* The structured-data normalizers: schema_org_extractor.py                *)
(* (SchemaOrgExtractor) and product_schema_normalizer.py                   *)
(* (SchemaNormalizer).  A payload is the dict extruct returns, with the    *)
(* keys "json-ld" and "microdata".  An entity is a record of its           *)
(* normalized types and its properties.  A dict is iterated in KeyOrder,   *)
(* the order in which the payloads of the model list their keys.           *)
(***************************************************************************)
Entity(types, properties) == [t |-> "entity", types |-> types, properties |-> properties]
IsEntity(x) == x.t = "entity"

KeyOrder == <<"@context", "@type", "@id", "type", "properties", "name", "p", "q", "@graph">>

\* dict.values(), in iteration order
Values(d) ==
    LET keys == SelectSeq(KeyOrder, LAMBDA k : k \in DOMAIN d)
    IN  [i \in DOMAIN keys |-> d[keys[i]]]

\* _normalize_type_strings
normalize_type_strings(ty) ==
    LET raw == ensure_list(ty)
        kept == SelectSeq(raw, LAMBDA item : IsStr(item) /\ Strip(item.v) # <<>>)
    IN  [i \in DOMAIN kept |->
            Lower(AfterLastSlash(Replace(Strip(kept[i].v), "#", "/")))]

RECURSIVE Concat(_)
Concat(seqs) == IF seqs = <<>> THEN <<>> ELSE Head(seqs) \o Concat(Tail(seqs))

(***************************************************************************)
(* schema_org_extractor.py                                                 *)
(***************************************************************************)
\* _flatten_tree
RECURSIVE flatten_tree(_)
flatten_tree(item) ==
    IF IsList(item)
    THEN Concat([i \in DOMAIN item.v |-> flatten_tree(item.v[i])])
    ELSE IF IsEntity(item)
    THEN <<item>> \o Concat([i \in DOMAIN Values(item.properties) |->
                                flatten_tree(Values(item.properties)[i])])
    ELSE <<>>

\* JsonLdStrategy._get_nodes
JsonLdGetNodes(data) ==
    LET raw == ensure_list(DictGet(data, "json-ld"))
    IN  Concat([i \in DOMAIN raw |->
                  IF IsDict(raw[i]) /\ "@graph" \in DOMAIN raw[i].v
                  THEN ensure_list(raw[i].v["@graph"])
                  ELSE <<raw[i]>>])

JsonLdFramingKeys == {"@type", "type", "@context", "@id"}

\* JsonLdStrategy._build_tree
RECURSIVE JsonLdBuildTree(_)
JsonLdBuildTree(data) ==
    IF IsList(data)
    THEN ListV([i \in DOMAIN data.v |-> JsonLdBuildTree(data.v[i])])
    ELSE IF IsDict(data)
    THEN LET raw_type == Or(DictGet(data.v, "@type"), DictGet(data.v, "type"))
         IN  IF ~Truthy(raw_type)
             THEN DictV([k \in DOMAIN data.v |-> JsonLdBuildTree(data.v[k])])
             ELSE Entity(normalize_type_strings(raw_type),
                         [k \in DOMAIN data.v \ JsonLdFramingKeys |->
                             JsonLdBuildTree(data.v[k])])
    ELSE data

\* MicrodataStrategy._get_nodes
MicrodataGetNodes(data) == ensure_list(DictGet(data, "microdata"))

\* MicrodataStrategy._build_tree
RECURSIVE MicrodataBuildTree(_)
MicrodataBuildTree(val) ==
    IF IsList(val)
    THEN ListV([i \in DOMAIN val.v |-> MicrodataBuildTree(val.v[i])])
    ELSE IF IsDict(val)
    THEN LET raw_type == DictGet(val.v, "type")
             raw_props == DictGet(val.v, "properties")
         IN  IF Truthy(raw_type) \/ ~IsNone(raw_props)
             THEN Entity(normalize_type_strings(raw_type),
                         IF IsDict(raw_props)
                         THEN [k \in DOMAIN raw_props.v |-> MicrodataBuildTree(raw_props.v[k])]
                         ELSE <<>>)
             ELSE DictV([k \in DOMAIN val.v |-> MicrodataBuildTree(val.v[k])])
    ELSE val

\* BaseExtractionStrategy.extract, given the strategy's nodes already built:
\* the roots that are entities, flattened.
ExtractRoots(built) ==
    Concat([i \in DOMAIN SelectSeq(built, IsEntity) |->
              flatten_tree(SelectSeq(built, IsEntity)[i])])

\* BaseExtractionStrategy.extract for the two strategies
JsonLdExtract(data) ==
    LET nodes == SelectSeq(JsonLdGetNodes(data), IsDict)
    IN  ExtractRoots([i \in DOMAIN nodes |-> JsonLdBuildTree(nodes[i])])

MicrodataExtract(data) ==
    LET nodes == SelectSeq(MicrodataGetNodes(data), IsDict)
    IN  ExtractRoots([i \in DOMAIN nodes |-> MicrodataBuildTree(nodes[i])])

\* SchemaOrgExtractor.collect_candidates: a strategy that raises is skipped.
SchemaOrgCollect(data) ==
    ListV(Concat(<<JsonLdExtract(data), MicrodataExtract(data)>>))

(***************************************************************************)
(* product_schema_normalizer.py                                            *)
(***************************************************************************)
\* JsonLdStrategy._extract_nodes
RECURSIVE extract_nodes(_)
extract_nodes(node) ==
    IF IsList(node)
    THEN Concat([i \in DOMAIN node.v |-> extract_nodes(node.v[i])])
    ELSE IF IsDict(node)
    THEN LET node_type == Or(DictGet(node.v, "@type"), DictGet(node.v, "type"))
         IN  (IF Truthy(node_type)
              THEN <<Entity(normalize_type_strings(node_type), node.v)>>
              ELSE <<>>)
             \o Concat([i \in DOMAIN Values(node.v) |-> extract_nodes(Values(node.v)[i])])
    ELSE <<>>

\* JsonLdStrategy.extract
NormalizerJsonLdExtract(data) ==
    LET raw_nodes == ensure_list(DictGet(data, "json-ld"))
    IN  Concat([i \in DOMAIN raw_nodes |-> extract_nodes(raw_nodes[i])])

\* MicrodataStrategy._normalize_item and _convert_value; item.get on a value
\* that is no dict raises AttributeError.
RECURSIVE convert_value(_)
normalize_item(item) ==
    IF ~IsDict(item) THEN Raised("AttributeError")
    ELSE LET properties == IF "properties" \in DOMAIN item.v THEN item.v["properties"]
                           ELSE DictV(<<>>)
         IN  Entity(normalize_type_strings(DictGet(item.v, "type")),
                    IF IsDict(properties)
                    THEN [k \in DOMAIN properties.v |-> convert_value(properties.v[k])]
                    ELSE <<>>)

convert_value(val) ==
    IF IsList(val)
    THEN ListV([i \in DOMAIN val.v |-> convert_value(val.v[i])])
    ELSE IF IsDict(val) /\ ("properties" \in DOMAIN val.v \/ "type" \in DOMAIN val.v)
    THEN normalize_item(val)
    ELSE val

\* MicrodataStrategy.extract without the isinstance(item, dict) test.
IsMicrodataItemAny(item) == TRUE

\* MicrodataStrategy.extract, line 104: isinstance(item, dict)
IsMicrodataItem(item) == IsDict(item)

\* MicrodataStrategy.extract: the entities, or the exception raised on the way
NormalizerMicrodataExtract(data) ==
    LET items == SelectSeq(ensure_list(DictGet(data, "microdata")), IsMicrodataItem)
        ents == [i \in DOMAIN items |-> normalize_item(items[i])]
    IN  IF \E i \in DOMAIN ents : IsRaised(ents[i])
        THEN Raised("AttributeError")
        ELSE ListV(SelectSeq(ents, IsEntity))

\* SchemaNormalizer.collect_candidates: an exception of a strategy propagates.
NormalizerCollect(data) ==
    IF IsRaised(NormalizerMicrodataExtract(data))
    THEN NormalizerMicrodataExtract(data)
    ELSE ListV(NormalizerJsonLdExtract(data) \o NormalizerMicrodataExtract(data).v)

Normalizers == {"schema_org_extractor", "product_schema_normalizer"}

collect_candidates(impl, data) ==
    IF impl = "schema_org_extractor" THEN SchemaOrgCollect(data) ELSE NormalizerCollect(data)

(***************************************************************************)
(* The payloads given to collect_candidates: JSON-LD and Microdata trees   *)
(* of bounded depth, with typed and untyped mappings, lists, scalars,      *)
(* @graph containers and malformed nodes.                                  *)
(***************************************************************************)
Scalar == StrV(<<"s">>)
TypeProduct == StrV(<<"P", "r", "o", "d", "u", "c", "t">>)
TypeWebPage == StrV(<<"W", "e", "b", "P", "a", "g", "e">>)
TypeOfferUrl ==
    StrV(<<"h", "t", "t", "p", ":", "/", "/", "s", "c", "h", "e", "m", "a", ".",
           "o", "r", "g", "/", "O", "f", "f", "e", "r">>)
TypeNumber == NumV(<<"5">>)

\* The framing of a JSON-LD mapping: none, or a type under "@type" or "type".
JsonShells ==
    { <<>>,
      ("@context" :> StrV(<<"c">>)) @@ ("@type" :> TypeProduct) @@ ("@id" :> StrV(<<"i">>)),
      "@type" :> TypeOfferUrl,
      "@type" :> TypeNumber,
      "type" :> TypeProduct }

JsonNodes(vals) == { DictV(n) : n \in WithOpt(JsonShells, "p", vals) }

RECURSIVE JsonValues(_)
JsonValues(d) ==
    IF d = 0 THEN {Scalar}
    ELSE LET prev == JsonValues(d - 1)
         IN  prev \cup JsonNodes(prev) \cup { ListV(<<v>>) : v \in prev }

MicroItems(vals) ==
    { DictV(n) :
        n \in WithOpt(WithOpt({ <<>> },
                "type", {TypeOfferUrl, TypeNumber}),
                "properties", {Scalar} \cup { DictV("q" :> v) : v \in vals }) }

RECURSIVE MicroValues(_)
MicroValues(d) ==
    IF d = 0 THEN {Scalar}
    ELSE LET prev == MicroValues(d - 1)
         IN  prev \cup MicroItems(prev) \cup { ListV(<<v>>) : v \in prev }

\* Mappings that carry "@graph": at the top level, with and without a type
\* of their own, and below a typed or an untyped node.
GraphNodes ==
    { DictV(("@graph" :> ListV(q)) @@ shell) :
        q \in JsonValues(1) \X JsonValues(1),
        shell \in { <<>>, ("@type" :> TypeWebPage) @@ ("name" :> Scalar) } }

NestedGraphNodes ==
    { DictV(shell @@ ("p" :> DictV(inner @@ ("@graph" :> ListV(<<DictV("@type" :> TypeProduct),
                                                                  DictV("@type" :> TypeOfferUrl)>>))))) :
        shell \in { <<>>, "@type" :> TypeWebPage },
        inner \in { <<>>, "@type" :> TypeWebPage } }

JsonLists ==
    { <<v>> : v \in JsonValues(MaxDepth) \cup GraphNodes \cup NestedGraphNodes }
        \cup (JsonValues(1) \X JsonValues(1))

MicroLists ==
    { <<v>> : v \in MicroValues(MaxDepth) } \cup (MicroValues(1) \X MicroValues(1))

Payload(json, micro) == ("json-ld" :> json) @@ ("microdata" :> micro)

Payloads ==
    { Payload(ListV(j), ListV(<<>>)) : j \in JsonLists }
        \cup { Payload(ListV(<<>>), ListV(m)) : m \in MicroLists }
        \cup { Payload(ListV(<<j>>), ListV(<<m>>)) :
                 j \in JsonValues(1), m \in MicroValues(1) }
        \cup { Payload(j, m) : j \in JsonNodes({Scalar}), m \in {NoneV} \cup MicroItems({Scalar}) }

\* One call of collect_candidates and its outcome.
call_collect_candidates ==
    /\ result = Pending
    /\ call.t = "normalize"
    /\ result' = collect_candidates(call.impl, call.data)
    /\ UNCHANGED <<call, schedVars, crawlVars>>

InitNormalize ==
    /\ settings = [browsers |-> <<"chrome">>, proxies |-> <<>>, cookies_enabled |-> TRUE]
    /\ meta = <<>>
    /\ log = <<>>
    /\ passes = <<>>
    /\ call \in [ t : {"normalize"}, impl : Normalizers, data : Payloads ]
    /\ result = Pending
    /\ CrawlIdle

NextNormalize == call_collect_candidates

SpecNormalize == InitNormalize /\ [][NextNormalize]_vars

(***************************************************************************)
(* The calls of the resolver: ProductExtractor.extract_from_html on the    *)
(* candidates of a page, and the properties of a ProductCandidate on one   *)
(* candidate.  A result names the operation that produced it.              *)
(***************************************************************************)
Out(op, v) == [t |-> "out", op |-> op, v |-> v]

TextInStockSnake == StrV(<<"i", "n", "_", "s", "t", "o", "c", "k">>)
TextPreOrder == StrV(<<"P", "r", "e", "O", "r", "d", "e", "r">>)
TextUSD == StrV(<<"U", "S", "D">>)
TextYear == StrV(<<"2", "0", "2", "0">>)
TextPrice == StrV(<<"9", ".", "9", "9">>)
TextRootPrice == StrV(<<"4", ".", "5", "0">>)
TextIsbn == StrV(<<"9", "7", "8">>)
TextEan == StrV(<<"5", "0", "1">>)

\* Offers that differ in availability, price, price specification,
\* currency and validity.
ResolveOffers ==
    { DictV(o) :
        o \in WithOpt(WithOpt(WithOpt(WithOpt(WithOpt({ <<>> },
                "availability", {TextInStock, TextOutOfStock, TextInStockSnake, TextPreOrder}),
                "price", {TextPrice, StrV(<<"N", "/", "A">>), NumV(<<"0">>)}),
                "priceSpecification", {SpecDict}),
                "priceCurrency", {TextEUR}),
                "validThrough", {TextYear}) }
    \cup
    { DictV(o) :
        o \in WithOpt(WithOpt(WithOpt({ "price" :> TextPrice },
                "validFrom", {TextYear}),
                "priceValidUntil", {TextYear}),
                "availability", {TextInStock}) }

ResolveRoots ==
    WithOpt(WithOpt(WithOpt({ ("@type" :> ProductType) @@ ("name" :> TextTea) },
        "price", {TextRootPrice}),
        "priceCurrency", {TextUSD}),
        "validThrough", {TextYear})

\* The offers of the candidates with several offers.
PairOffers ==
    { DictV("availability" :> TextInStockSnake),
      DictV("availability" :> TextInStock),
      DictV(("availability" :> TextOutOfStock) @@ ("price" :> TextPrice)),
      DictV(("availability" :> TextPreOrder) @@ ("price" :> TextPrice) @@ ("ean" :> TextEan)),
      DictV(("price" :> TextPrice) @@ ("gtin" :> TextGtin)),
      DictV("price" :> StrV(<<"N", "/", "A">>)) }

\* Candidates with identifiers on the root, on the offer and in the
\* identifier list.
IdentifierRaws ==
    { root @@ offers :
        root \in WithOpt(WithOpt(WithOpt({ "@type" :> ProductType },
                    "isbn", {TextIsbn}),
                    "gtin13", {TextGtin}),
                    "identifier",
                        { IdentifierList,
                          DictV(("propertyID" :> StrV(<<"g", "t", "i", "n", "1", "3">>))
                                    @@ ("value" :> TextGtin)) }),
        offers \in { <<>>, "offers" :> DictV("ean" :> TextEan) } }

ResolveRaws ==
    ResolveRoots
        \cup { root @@ ("offers" :> o) : root \in ResolveRoots, o \in ResolveOffers }
        \cup { ("@type" :> ProductType) @@ ("offers" :> ListV(q)) :
                 q \in SeqsOf(PairOffers, 2, MaxOffers) }
        \cup IdentifierRaws

OfferType == ListV(<<StrV(<<"o", "f", "f", "e", "r">>)>>)

\* The candidates of a page: dicts typed as product, as a type containing
\* "product", as offer or untyped, of different completeness, and a
\* SchemaEntity object as SchemaNormalizer returns it.
ResolveCandidates ==
    { DictV(("@type" :> ProductType) @@ ("name" :> TextTea)),
      DictV(("@type" :> ProductType) @@ ("name" :> TextTea) @@ ("description" :> StrV(<<"D">>))),
      DictV(("@type" :> ProductType) @@ ("name" :> StrV(<<"M", "u", "g">>))
                @@ ("offers" :> DictV("price" :> TextPrice))),
      DictV(("@type" :> ProductType) @@ ("description" :> StrV(<<"D">>))
                @@ ("offers" :> DictV("price" :> TextPrice))),
      DictV(("@type" :> ListV(<<StrV(<<"p", "r", "o", "d", "u", "c", "t", "g", "r", "o", "u", "p">>)>>))
                @@ ("name" :> TextTea) @@ ("description" :> StrV(<<"D">>))
                @@ ("offers" :> DictV("price" :> TextPrice))),
      DictV(("@type" :> OfferType) @@ ("offers" :> DictV("price" :> TextPrice))
                @@ ("mpn" :> StrV(<<"M", "1">>))),
      DictV(("@type" :> ListV(<<>>)) @@ ("sku" :> StrV(<<"S", "1">>))),
      DictV("@type" :> OfferType),
      Entity(<<<<"p", "r", "o", "d", "u", "c", "t">>>>,
             ("@type" :> StrV(<<"P", "r", "o", "d", "u", "c", "t">>)) @@ ("name" :> TextTea)) }

ResolveCalls ==
    [ t : {"resolve"}, candidates : SeqsOf(ResolveCandidates, 0, MaxCandidates) ]
        \cup [ t : {"candidate"}, raw : ResolveRaws, now : Nows ]

\* ProductExtractor.extract_from_html on the candidates the normalizer
\* collected.
call_extract_from_html ==
    /\ result = Pending
    /\ call.t = "resolve"
    /\ result' = Out("extract_from_html", extract_from_html(call.candidates))
    /\ UNCHANGED <<call, schedVars, crawlVars>>

\* ProductCandidate(raw).best_offer
call_best_offer ==
    /\ result = Pending
    /\ call.t = "candidate"
    /\ result' = Out("best_offer", best_offer(call.raw))
    /\ UNCHANGED <<call, schedVars, crawlVars>>

\* ProductCandidate(raw).price
call_price ==
    /\ result = Pending
    /\ call.t = "candidate"
    /\ result' = Out("price", price(call.raw))
    /\ UNCHANGED <<call, schedVars, crawlVars>>

\* ProductCandidate(raw).currency
call_currency ==
    /\ result = Pending
    /\ call.t = "candidate"
    /\ result' = Out("currency", currency(call.raw))
    /\ UNCHANGED <<call, schedVars, crawlVars>>

\* ProductCandidate(raw).ean
call_ean ==
    /\ result = Pending
    /\ call.t = "candidate"
    /\ result' = Out("ean", ean(call.raw))
    /\ UNCHANGED <<call, schedVars, crawlVars>>

\* ProductCandidate(raw).is_active at the instant call.now
call_is_active ==
    /\ result = Pending
    /\ call.t = "candidate"
    /\ result' = Out("is_active", is_active(call.raw, call.now))
    /\ UNCHANGED <<call, schedVars, crawlVars>>

InitResolve ==
    /\ settings = [browsers |-> <<"chrome">>, proxies |-> <<>>, cookies_enabled |-> TRUE]
    /\ meta = <<>>
    /\ log = <<>>
    /\ passes = <<>>
    /\ call \in ResolveCalls
    /\ result = Pending
    /\ CrawlIdle

NextResolve ==
    \/ call_extract_from_html
    \/ call_best_offer
    \/ call_price
    \/ call_currency
    \/ call_ean
    \/ call_is_active

SpecResolve == InitResolve /\ [][NextResolve]_vars

(***************************************************************************)
(* The crawl pipeline: webstore_sleuth_crawlee/crawler.py and impl.py, and *)
(* webstore_sleuth_scrapy/impl.py.  A producer thread runs the crawl and   *)
(* puts records on the results queue, then the sentinel None; the          *)
(* generator crawl() drains the queue.  Record k of worker j is            *)
(* Item(j, k); the Scrapy spider is emitter 0.                             *)
(***************************************************************************)
Item(j, k) == [t |-> "product", j |-> j, k |-> k]

Backends == {"crawlee", "scrapy"}

Configs == [ backend : Backends, jobs : 0 .. MaxJobs, limit : 1 .. MaxLimit ]

\* The attribute that holds the queue the producer fills, and the attribute
\* crawl() reads the queue from.
QueueAttribute(backend) ==
    IF backend = "crawlee" THEN "results_queue" ELSE "_results_queue"

ConsumerAttribute(backend) == "_results_queue"

Jobs == DOMAIN workers

Finished(w) == w.st \in {"done", "failed"}

\* The workers inside `async with semaphore`.
Inside == { j \in Jobs : workers[j].st = "crawling" }

\* asyncio.Semaphore(max_parallel_crawlers) without its counter: every
\* acquire succeeds.
SemaphoreUnbounded(limit, inside) == TRUE

\* asyncio.Semaphore(max_parallel_crawlers): acquire succeeds while fewer
\* than `limit` holders are inside.
SemaphoreFree(limit, inside) == Cardinality(inside) < limit

\* asyncio.gather(*tasks) without return_exceptions: it returns as soon as
\* one task has raised.
GatherFirstException(w) ==
    \/ \A j \in DOMAIN w : Finished(w[j])
    \/ \E j \in DOMAIN w : w[j].st = "failed"

\* asyncio.gather(*tasks, return_exceptions=True): it returns when every
\* task has finished, normally or with an exception.
GatherDone(w) == \A j \in DOMAIN w : Finished(w[j])

\* queue.Queue.put
Put_(item) ==
    /\ queue' = Append(queue, item)
    /\ pushed' = Append(pushed, item)

\* crawl(), lines 22-23 (26-27 for Scrapy): the thread is started.
crawl_start ==
    /\ cfg # Idle
    /\ consumer = "new"
    /\ consumer' = "get"
    /\ producer' = "run"
    /\ UNCHANGED <<cfg, workers, queue, yielded, pushed, failures, schedVars, extractVars>>

\* crawl(): one turn of the loop whose queue attribute does not exist on
\* the runner: AttributeError leaves the generator.
crawl_get_raises ==
    /\ consumer = "get"
    /\ ConsumerAttribute(cfg.backend) # QueueAttribute(cfg.backend)
    /\ consumer' = "raised"
    /\ UNCHANGED <<cfg, producer, workers, queue, yielded, pushed, failures,
                   schedVars, extractVars>>

\* crawl(): one turn of the loop; get() blocks on an empty queue, the
\* sentinel ends the loop, any other item is yielded.
crawl_get ==
    /\ consumer = "get"
    /\ ConsumerAttribute(cfg.backend) = QueueAttribute(cfg.backend)
    /\ queue # <<>>
    /\ queue' = Tail(queue)
    /\ IF IsNone(Head(queue))
       THEN consumer' = "join" /\ UNCHANGED yielded
       ELSE consumer' = "get" /\ yielded' = Append(yielded, Head(queue))
    /\ UNCHANGED <<cfg, producer, workers, pushed, failures, schedVars, extractVars>>

\* crawl(): t.join() and the end of the generator.
crawl_join ==
    /\ consumer = "join"
    /\ producer = "ended"
    /\ consumer' = "returned"
    /\ UNCHANGED <<cfg, producer, workers, queue, yielded, pushed, failures,
                   schedVars, extractVars>>

\* PlaywrightCrawlerRunner._run_crawl, lines 71-99: the jobs and their tasks.
run_crawl_tasks ==
    /\ cfg.backend = "crawlee"
    /\ producer = "run"
    /\ workers' = [j \in 1 .. cfg.jobs |-> [st |-> "created", n |-> 0]]
    /\ producer' = "gather"
    /\ UNCHANGED <<cfg, queue, consumer, yielded, pushed, failures, schedVars, extractVars>>

\* _run_crawl fails before the tasks exist (the proxy file, the proxy
\* configuration, model_dump); the exception leaves asyncio.run.
run_crawl_fails ==
    /\ cfg.backend = "crawlee"
    /\ producer = "run"
    /\ producer' = "finally"
    /\ UNCHANGED <<cfg, workers, queue, consumer, yielded, pushed, failures,
                   schedVars, extractVars>>

\* _run_single_crawler, line 35: the worker enters `async with semaphore`.
worker_acquire(j) ==
    /\ producer = "gather"
    /\ workers[j].st = "created"
    /\ SemaphoreFree(cfg.limit, Inside)
    /\ workers' = [workers EXCEPT ![j].st = "crawling"]
    /\ UNCHANGED <<cfg, producer, queue, consumer, yielded, pushed, failures,
                   schedVars, extractVars>>

\* on_product, lines 37-38, called by the router during crawler.run.
worker_on_product(j) ==
    /\ workers[j].st = "crawling"
    /\ workers[j].n < MaxRecords
    /\ Put_(Item(j, workers[j].n + 1))
    /\ workers' = [workers EXCEPT ![j].n = @ + 1]
    /\ UNCHANGED <<cfg, producer, consumer, yielded, failures, schedVars, extractVars>>

\* crawler.run returns, line 68; the semaphore is released.
worker_done(j) ==
    /\ workers[j].st = "crawling"
    /\ workers' = [workers EXCEPT ![j].st = "done"]
    /\ UNCHANGED <<cfg, producer, queue, consumer, yielded, pushed, failures,
                   schedVars, extractVars>>

\* The crawl section raises; the semaphore is released and the task ends
\* with the exception.
worker_fails(j) ==
    /\ workers[j].st = "crawling"
    /\ workers' = [workers EXCEPT ![j].st = "failed"]
    /\ UNCHANGED <<cfg, producer, queue, consumer, yielded, pushed, failures,
                   schedVars, extractVars>>

\* _run_crawl, lines 102-106: the gather returns and the failures are printed.
run_crawl_gather ==
    /\ producer = "gather"
    /\ GatherDone(workers)
    /\ failures' = { j \in Jobs : workers[j].st = "failed" }
    /\ producer' = "finally"
    /\ UNCHANGED <<cfg, workers, queue, consumer, yielded, pushed, schedVars, extractVars>>

\* run, lines 113-115 (line 48 of _run_process): the sentinel.
put_sentinel ==
    /\ producer = "finally"
    /\ Put_(NoneV)
    /\ producer' = "ended"
    /\ UNCHANGED <<cfg, workers, consumer, yielded, failures, schedVars, extractVars>>

\* ScrapyScraper._run_process, lines 39-46: process.start runs the reactor.
run_process_start ==
    /\ cfg.backend = "scrapy"
    /\ producer = "run"
    /\ workers' = (0 :> [st |-> "crawling", n |-> 0])
    /\ producer' = "reactor"
    /\ UNCHANGED <<cfg, queue, consumer, yielded, pushed, failures, schedVars, extractVars>>

\* _run_process raises before the reactor runs (a reactor that cannot be
\* restarted, a spider that cannot be created): the thread ends at once.
run_process_fails ==
    /\ cfg.backend = "scrapy"
    /\ producer = "run"
    /\ producer' = "ended"
    /\ UNCHANGED <<cfg, workers, queue, consumer, yielded, pushed, failures,
                   schedVars, extractVars>>

\* _on_item_scraped, lines 50-51.
on_item_scraped ==
    /\ producer = "reactor"
    /\ workers[0].n < MaxRecords * cfg.jobs
    /\ Put_(Item(0, workers[0].n + 1))
    /\ workers' = [workers EXCEPT ![0].n = @ + 1]
    /\ UNCHANGED <<cfg, producer, consumer, yielded, failures, schedVars, extractVars>>

\* process.start returns, line 46.
run_process_returns ==
    /\ producer = "reactor"
    /\ workers' = [workers EXCEPT ![0].st = "done"]
    /\ producer' = "finally"
    /\ UNCHANGED <<cfg, queue, consumer, yielded, pushed, failures, schedVars, extractVars>>

InitCrawl ==
    /\ settings = [browsers |-> <<"chrome">>, proxies |-> <<>>, cookies_enabled |-> TRUE]
    /\ meta = <<>>
    /\ log = <<>>
    /\ passes = <<>>
    /\ call = Idle
    /\ result = Idle
    /\ cfg \in Configs
    /\ producer = "unstarted"
    /\ workers = <<>>
    /\ queue = <<>>
    /\ consumer = "new"
    /\ yielded = <<>>
    /\ pushed = <<>>
    /\ failures = {}

NextCrawl ==
    \/ crawl_start
    \/ crawl_get_raises
    \/ crawl_get
    \/ crawl_join
    \/ run_crawl_tasks
    \/ run_crawl_fails
    \/ \E j \in Jobs \ {0} : worker_acquire(j)
    \/ \E j \in Jobs \ {0} : worker_on_product(j)
    \/ \E j \in Jobs \ {0} : worker_done(j)
    \/ \E j \in Jobs \ {0} : worker_fails(j)
    \/ run_crawl_gather
    \/ put_sentinel
    \/ run_process_start
    \/ run_process_fails
    \/ on_item_scraped
    \/ run_process_returns

SpecCrawl == InitCrawl /\ [][NextCrawl]_vars

\* The event loop and the threads keep running: every step that is enabled
\* and stays enabled is taken, and a crawl section that was entered ends,
\* normally or with an exception.  Whether a step fails, and how many
\* records are emitted, is left open.
CrawlFairness ==
    /\ WF_vars(crawl_start)
    /\ WF_vars(crawl_get_raises)
    /\ WF_vars(crawl_get)
    /\ WF_vars(crawl_join)
    /\ WF_vars(run_crawl_tasks \/ run_crawl_fails)
    /\ \A j \in 1 .. MaxJobs : WF_vars(j \in Jobs /\ worker_acquire(j))
    /\ \A j \in 1 .. MaxJobs : WF_vars(j \in Jobs /\ (worker_done(j) \/ worker_fails(j)))
    /\ WF_vars(run_crawl_gather)
    /\ WF_vars(put_sentinel)
    /\ WF_vars(run_process_start \/ run_process_fails)
    /\ WF_vars(run_process_returns)

SpecCrawlFair == InitCrawl /\ [][NextCrawl]_vars /\ CrawlFairness

(***************************************************************************)
(* Properties of the identity rotation middleware.                         *)
(***************************************************************************)
Scheduled(r) == ~GetFlag(meta[r], "dont_impersonate")

Ids(r, ks) == { log[r][k].id : k \in ks }

\* The pool offers the retry filter something other than the identity `prev`.
HasAlternative(s, prev) ==
    IF HasMultipleProxies(s)
    THEN \E p \in Pool(s) : p[2] # prev[2]
    ELSE \E p \in Pool(s) : p[1] # prev[1]

\* A request the spider left untouched (no pinned browser, no proxy, no
\* dont_proxy), whose every attempt was assigned by the middleware.
Untouched(r) ==
    /\ Scheduled(r)
    /\ ~GetFlag(meta[r], "dont_proxy")
    /\ log[r] # <<>>
    /\ log[r][1].kind = "assigned"
    /\ log[r][1].prev = <<NoneVal, NoneVal>>

C3_OneCommitPerAttempt ==
    \A r \in Reqs :
        (Scheduled(r) /\ passes[r] >= 1) =>
            LET n == RetryTimes(meta[r])
                ks == { k \in DOMAIN log[r] : log[r][k].retry = n }
            IN  /\ Cardinality(ks) = 1
                /\ AssignedAt(meta[r]) = n
                /\ \A k \in ks :
                      /\ log[r][k].marker = n
                      /\ log[r][k].carried =
                            <<GetStr(meta[r], "impersonate"), GetStr(meta[r], "proxy")>>
                      /\ log[r][k].jar = GetStr(meta[r], "cookiejar")

\* C3 witness: a retry attempt that went through process_request twice.
C3_Witness ==
    \E r \in Reqs :
        /\ Scheduled(r)
        /\ passes[r] = 2
        /\ RetryTimes(meta[r]) >= 1
        /\ Len(log[r]) >= 2

\* C4 as stated: whenever the middleware has keyed a request, the session
\* key the request carries is the key derived from the identity it is
\* currently assigned.
C4_KeyFollowsIdentity ==
    \A r \in Reqs :
        (log[r] # <<>> /\ \E k \in DOMAIN log[r] : log[r][k].fresh) =>
            GetStr(meta[r], "cookiejar") =
                Md5Hex12(PairId(log[r][Len(log[r])].id[1], log[r][Len(log[r])].id[2]))

FreshKeys == { <<r, k>> \in Reqs \X (1 .. (MaxRetries + 1)) :
                 k \in DOMAIN log[r] /\ log[r][k].fresh }

\* C6: across requests, two freshly keyed identities have the same session
\* key exactly when they are the same (fingerprint, proxy) pair; the key of
\* a proxy-less identity is the digest of "<fingerprint>|local", that of a
\* proxied one the digest of "<fingerprint>|<proxy>".
C6_KeyIsFunctionOfIdentity ==
    \A a, b \in FreshKeys :
        LET ea == log[a[1]][a[2]]
            eb == log[b[1]][b[2]]
        IN  /\ (ea.id = eb.id) <=> (ea.jar = eb.jar)
            /\ ea.id = <<"chrome", NoneVal>> => ea.jar = Md5Hex12("chrome|local")
            /\ ea.id = <<"safari", "http://p2">> => ea.jar = Md5Hex12("safari|http://p2")

\* C6 witness: two requests keyed for two identities that differ only in
\* the proxy.
C6_Witness ==
    \E a, b \in FreshKeys :
        /\ a[1] # b[1]
        /\ log[a[1]][a[2]].id[1] = log[b[1]][b[2]].id[1]
        /\ log[a[1]][a[2]].id[2] # log[b[1]][b[2]].id[2]

ProxyCount(s, counting) ==
    IF counting = "entries" THEN Len(s.proxies)
    ELSE Cardinality(Range(s.proxies))

\* The retry assignment e rotated as required when the configured proxies
\* are counted in the given way.
Rotated(e, counting) ==
    /\ ProxyCount(settings, counting) > 1 => e.id[2] # e.prev[2]
    /\ (ProxyCount(settings, counting) <= 1 /\ Len(settings.browsers) > 1) =>
           e.id[1] # e.prev[1]

\* C30: on every retry attempt that gets a new assignment, with more than one
\* proxy configured the proxy of the new identity differs from the proxy the
\* request carried from the previous attempt; with at most one proxy
\* configured and more than one browser available, the new browser differs
\* from the browser of the previous attempt.  The statement is taken under
\* whichever way of counting the proxies makes it true of the assignment.
C30_RetryRotatesProxyOrBrowser ==
    \A r \in Reqs : \A k \in DOMAIN log[r] :
        LET e == log[r][k] IN
        (e.kind = "assigned" /\ e.retry > 0) =>
            (Rotated(e, "entries") \/ Rotated(e, "distinct"))

(***************************************************************************)
(* Properties of extract_product.                                          *)
(***************************************************************************)
Returned == result # Pending /\ result # Idle

\* The candidate extract_product works on, when there is one.
HasCandidate == IsDict(Candidate(call))
Raw == Candidate(call).v

NoOverrides ==
    /\ IsNone(call.title) /\ IsNone(call.description) /\ IsNone(call.price)
    /\ IsNone(call.currency) /\ IsNone(call.ean) /\ IsNone(call.mpn)

\* C8: for every structured-data payload and every combination of
\* overrides, extract_product ends with a Product or with None and never
\* lets an exception reach its caller.
C8_NeverRaises ==
    Returned => (result.t = "product" \/ IsNone(result))

\* C9: extract_product never returns a Product whose title is empty after
\* trimming; when neither the extracted title nor the title override is a
\* non-blank string, what it returns is None and no Product.
C9_NoEmptyTitle ==
    /\ result.t = "product" => Strip(result.title.v) # <<>>
    /\ ( /\ Returned
         /\ ~(IsStr(call.title) /\ Strip(call.title.v) # <<>>)
         /\ ~(HasCandidate /\ Truthy(title(Raw))) ) => result.t # "product"

\* C10: when the price found in the structured data cannot be parsed (an
\* unparseable or a negative string), a call without overrides on a
\* candidate with a title still returns a Product built from the other
\* extracted fields, with price absent.
C10_UnparseablePriceDropped ==
    ( /\ Returned
      /\ NoOverrides
      /\ HasCandidate
      /\ Truthy(title(Raw))
      /\ price(Raw) = Raised("ValueError") )
    => /\ result.t = "product"
       /\ IsNone(result.price)
       /\ result.title = title(Raw)
       /\ result.description = description(Raw)
       /\ result.currency = currency(Raw)
       /\ result.ean = ean(Raw)
       /\ result.mpn = mpn(Raw)

(***************************************************************************)
(* Properties of parse_price and of the Product record.                    *)
(***************************************************************************)
\* A string that is itself a Decimal literal of negative value, as "-5.00".
NegativeLiteral(v) ==
    /\ IsStr(v)
    /\ DecimalSyntax(Strip(v.v))
    /\ DecNegative(ToDecimal(Strip(v.v)))

NegativeNumber(v) ==
    \/ IsNum(v) /\ DecNegative(ToDecimal(v.v))
    \/ IsDec(v) /\ DecNegative(v)

RunOf(v) == NumberChunk(Remove(Strip(v.v), "NBSP"))

\* The run holds digits and separators only (no sign) and at least one digit.
Unsigned(r) ==
    /\ \A i \in DOMAIN r : r[i] \in Digits \cup {".", ","}
    /\ \E i \in DOMAIN r : r[i] \in Digits

DigitsOf(r) == SelectSeq(r, LAMBDA c : c \in Digits)

\* What parse_price gives for a cleaned number.
OutcomeOf(clean) ==
    IF ~DecimalSyntax(clean) \/ DecNegative(ToDecimal(clean))
    THEN Raised("ValueError")
    ELSE ToDecimal(clean)

\* The run with the separator that occurs last as the decimal point and the
\* other separator removed.
LastSeparatorDecimal(r) ==
    LET last == IF RFind(r, ".") > RFind(r, ",") THEN "." ELSE ","
        other == IF last = "." THEN "," ELSE "."
        kept == SelectSeq(r, LAMBDA c : c # other)
    IN  [i \in DOMAIN kept |-> IF kept[i] = last THEN "." ELSE kept[i]]

PriceParsed == call.t = "price" /\ IsStr(call.value) /\ result # Pending /\ result.t # "product"

\* The result is the expected outcome; the price validator of Product
\* reports the ValueError of parse_price as a ValidationError.
Gives(expected) ==
    \/ result = expected
    \/ expected = Raised("ValueError") /\ result = Raised("ValidationError")

\* C21: for a price string whose numeric run holds both "." and ",", the
\* separator that occurs last is the decimal point and the other one is
\* removed: when that separator occurs once in an unsigned run, the value is
\* the run's digits with as many fractional digits as follow it.  For a run
\* with two or more "." and no ",", the dots are removed and the value is
\* the integer of the digits.  "19,99" gives 19.99, "1.200,50" and
\* "1,200.50" give 1200.50, "1.000.000" gives 1000000.
C21_LastSeparatorIsDecimal ==
    PriceParsed =>
        LET r == RunOf(call.value)
            dots == Count(r, ".")
            commas == Count(r, ",")
            last == Max({RFind(r, "."), RFind(r, ",")})
        IN  /\ (dots > 0 /\ commas > 0) =>
                  /\ Gives(OutcomeOf(LastSeparatorDecimal(r)))
                  /\ (Unsigned(r) /\ Count(r, r[last]) = 1) =>
                        result = DecV(FALSE, DigitsToNat(DigitsOf(r)), Len(r) - last)
            /\ (dots > 1 /\ commas = 0) =>
                  /\ Gives(OutcomeOf(Remove(r, ".")))
                  /\ Unsigned(r) => result = DecV(FALSE, DigitsToNat(DigitsOf(r)), 0)
            /\ call.value.v = <<"1", "9", ",", "9", "9">> => result = DecV(FALSE, 1999, 2)
            /\ call.value.v \in { <<"1", ".", "2", "0", "0", ",", "5", "0">>,
                                  <<"1", ",", "2", "0", "0", ".", "5", "0">> }
                  => result = DecV(FALSE, 120050, 2)
            /\ call.value.v = <<"1", ".", "0", "0", "0", ".", "0", "0", "0">>
                  => result = DecV(FALSE, 1000000, 0)

\* C21 witness: "1.200,50" was parsed to 1200.50.
C21_Witness ==
    /\ PriceParsed
    /\ call.value.v = <<"1", ".", "2", "0", "0", ",", "5", "0">>
    /\ result = DecV(FALSE, 120050, 2)

CommaRun(r) == Count(r, ",") > 0 /\ Count(r, ".") = 0

\* C22 as stated: for a price string whose numeric run holds "," and no
\* ".": with more than 2 digits after the last comma all commas are removed
\* and the result is that integer, otherwise the comma is the decimal point;
\* in both cases the result is a non-negative decimal, not a format error.
C22_CommaOnly ==
    PriceParsed =>
        LET r == RunOf(call.value)
            last == RFind(r, ",")
        IN  (Unsigned(r) /\ CommaRun(r)) =>
                /\ IsDec(result) /\ ~DecNegative(result)
                /\ Len(r) - last > 2 => result = DecV(FALSE, DigitsToNat(DigitsOf(r)), 0)
                /\ Len(r) - last <= 2 =>
                      result = DecV(FALSE, DigitsToNat(DigitsOf(r)), Len(r) - last)

\* C22 amended: for a run with "," and no ".", when more than 2 characters
\* follow the last comma all commas are removed, otherwise every comma is
\* read as a decimal point, and the outcome is the non-negative decimal so
\* written or a format error when that text is no decimal number or is
\* negative.  For a run of digits and commas: the integer of the digits in
\* the first case; in the second case the decimal with the digits after the
\* comma as its fraction when there is one comma, and a format error when
\* there are several.
C22_CommaOnlyAmended ==
    PriceParsed =>
        LET r == RunOf(call.value)
            last == RFind(r, ",")
            thousands == Len(r) - last > 2
        IN  CommaRun(r) =>
                /\ Gives(OutcomeOf(IF thousands
                                   THEN SelectSeq(r, LAMBDA c : c # ",")
                                   ELSE [i \in DOMAIN r |-> IF r[i] = "," THEN "." ELSE r[i]]))
                /\ Unsigned(r) =>
                      /\ thousands => result = DecV(FALSE, DigitsToNat(DigitsOf(r)), 0)
                      /\ (~thousands /\ Count(r, ",") = 1) =>
                            result = DecV(FALSE, DigitsToNat(DigitsOf(r)), Len(r) - last)
                      /\ (~thousands /\ Count(r, ",") > 1) =>
                            Gives(Raised("ValueError"))

\* C22 witness: "1,000" was parsed to 1000 and not to 1.000.
C22_Witness ==
    /\ PriceParsed
    /\ call.value.v = <<"1", ",", "0", "0", "0">>
    /\ result = DecV(FALSE, 1000, 0)

\* C12: in every Product returned, each of url, title, description,
\* currency, ean and mpn is absent or a non-empty string without leading or
\* trailing whitespace; a value empty after trimming is stored as absent.
C12_NoEmptyStrings ==
    result.t = "product" =>
        \A f \in {"url", "title", "description", "currency", "ean", "mpn"} :
            \/ IsNone(result[f])
            \/ IsStr(result[f]) /\ result[f].v # <<>> /\ Strip(result[f].v) = result[f].v

(***************************************************************************)
(* Properties of the resolver.                                             *)
(***************************************************************************)
Resolved(op) == result # Pending /\ result.t = "out" /\ result.op = op

TextProduct == <<"p", "r", "o", "d", "u", "c", "t">>

\* The normalized types and the properties of an entity of the list, be it
\* a dict or a SchemaEntity object.
TypesOf(c) ==
    IF IsEntity(c) THEN c.types
    ELSE IF IsDict(c) /\ IsList(DictGet(c.v, "@type"))
    THEN [i \in DOMAIN c.v["@type"].v |-> StrOf(c.v["@type"].v[i])]
    ELSE <<>>

PropOf(c, k) ==
    IF IsEntity(c) THEN DictGet(c.properties, k)
    ELSE IF IsDict(c) THEN DictGet(c.v, k)
    ELSE NoneV

QualifiesByType(c) == \E i \in DOMAIN TypesOf(c) : Contains(TypesOf(c)[i], TextProduct)

QualifiesByFallback(c) ==
    Truthy(PropOf(c, "offers")) \/ Truthy(PropOf(c, "sku")) \/ Truthy(PropOf(c, "mpn"))

\* The positions of the qualifying entities: those typed as product, or,
\* when there is none, those carrying offers, sku or mpn.
Qualifying(cs) ==
    LET byType == { i \in DOMAIN cs : QualifiesByType(cs[i]) }
    IN  IF byType # {} THEN byType
        ELSE { i \in DOMAIN cs : QualifiesByFallback(cs[i]) }

\* C23: the resolver returns at most one candidate, an entity of the list
\* that qualifies: one of whose normalized types contains "product", or,
\* when no entity qualifies by type, one that carries offers, sku or mpn;
\* it returns none only if the list has neither kind of entity.
C23_FallbackCandidates ==
    Resolved("extract_from_html") =>
        LET q == Qualifying(call.candidates)
        IN  /\ q = {} => IsNone(result.v)
            /\ q # {} => \E i \in q : result.v = call.candidates[i]

NonEmptyText(v) == (IsStr(v) /\ Strip(v.v) # <<>>) \/ IsNum(v)

\* The completeness score: one for each non-empty item among title, offers
\* and description.
ScoreOf(c) ==
    Bool01(NonEmptyText(PropOf(c, "name"))) + Bool01(Truthy(PropOf(c, "offers")))
        + Bool01(NonEmptyText(PropOf(c, "description")))

\* C24: among the candidates that qualify by type the resolver returns the
\* one of greatest completeness score, and of several with the greatest
\* score the one that comes first in the entity list.
C24_MostComplete ==
    Resolved("extract_from_html") =>
        LET cs == call.candidates
            q == { i \in DOMAIN cs : QualifiesByType(cs[i]) }
            best == { i \in q : \A j \in q : ScoreOf(cs[j]) <= ScoreOf(cs[i]) }
        IN  q # {} => result.v = cs[Min(best)]

\* The availability rank and the price-missing flag of an offer.
RankOf(o) ==
    LET avail == Lower(StrOf(Or(DictGet(o.v, "availability"), StrV(<<>>))))
    IN  IF ContainsAny(avail, { <<"i", "n", "s", "t", "o", "c", "k">>,
                                <<"i", "n", "_", "s", "t", "o", "c", "k">> })
        THEN 0
        ELSE IF ContainsAny(avail, { <<"o", "u", "t", "o", "f", "s", "t", "o", "c", "k">>,
                                     <<"s", "o", "l", "d", "o", "u", "t">> })
        THEN 2
        ELSE 1

FlagOf(o) == IF Truthy(DictGet(o.v, "price")) THEN 0 ELSE 1

\* C25: the best offer of a candidate is the first offer minimizing
\* (availability rank, price-missing flag), with rank 0 for an availability
\* containing "instock" or "in_stock" in any case, 2 for "outofstock" or
\* "soldout", 1 otherwise; a candidate without offers has no best offer.
C25_BestOffer ==
    Resolved("best_offer") =>
        LET offers == Offers(call.raw)
            least == { i \in DOMAIN offers :
                         \A j \in DOMAIN offers :
                             ~ScoreLess(<<RankOf(offers[j]), FlagOf(offers[j])>>,
                                        <<RankOf(offers[i]), FlagOf(offers[i])>>) }
        IN  /\ offers = <<>> => result.v = DictV(<<>>)
            /\ offers # <<>> => result.v = offers[Min(least)]

\* The three steps of isActive for a candidate and its chosen offer.
TokenOf(offer) ==
    Lower(AfterLastSlash(StrOf(Or(DictGet(offer.v, "availability"), StrV(<<>>)))))

TokenInactive(offer) ==
    ContainsAny(TokenOf(offer), { <<"o", "u", "t", "o", "f", "s", "t", "o", "c", "k">>,
                                  <<"s", "o", "l", "d", "o", "u", "t">>,
                                  <<"d", "i", "s", "c", "o", "n", "t", "i", "n", "u", "e", "d">> })

TokenActive(offer) ==
    /\ ~TokenInactive(offer)
    /\ ContainsAny(TokenOf(offer), { <<"i", "n", "s", "t", "o", "c", "k">>,
                                     <<"a", "v", "a", "i", "l", "a", "b", "l", "e">> })

DatesExclude(raw, offer, now) ==
    LET vf == parse_iso_date(Or(DictGet(offer.v, "validFrom"), DictGet(raw, "validFrom")))
        vt == parse_iso_date(Or(Or(DictGet(offer.v, "validThrough"),
                                   DictGet(offer.v, "priceValidUntil")),
                                DictGet(raw, "validThrough")))
    IN  \/ ~IsNone(vf) /\ now < vf.v
        \/ ~IsNone(vt) /\ now > vt.v

PositivePriceFound(raw) == IsDec(price(raw)) /\ DecPositive(price(raw))

\* C26: isActive is decided in strict priority order: the availability
\* token of the chosen offer decides when it matches (false for out of
\* stock, sold out or discontinued, true for in stock or available),
\* whatever the dates and the price; otherwise it is false when now is
\* before validFrom or after validThrough / priceValidUntil; otherwise it is
\* true exactly when a positive price was found.
C26_ActivePriority ==
    Resolved("is_active") =>
        LET offer == best_offer(call.raw)
        IN  result.v =
                BoolV(IF TokenInactive(offer) THEN FALSE
                      ELSE IF TokenActive(offer) THEN TRUE
                      ELSE IF DatesExclude(call.raw, offer, call.now) THEN FALSE
                      ELSE PositivePriceFound(call.raw))

SpecOf(offer) == Or(DictGet(offer.v, "priceSpecification"), DictV(<<>>))

\* C27: the derived price is the best offer's price, else the price of its
\* priceSpecification, else the price on the candidate root; the currency
\* follows the same order through priceCurrency.
C27_PriceFallsBackToRoot ==
    LET offer == best_offer(call.raw)
    IN  /\ (Resolved("price") /\ IsDict(SpecOf(offer))) =>
              result.v = parse_price(get_first_nonempty(
                             << DictGet(offer.v, "price"),
                                DictGet(SpecOf(offer).v, "price"),
                                DictGet(call.raw, "price") >>))
        /\ (Resolved("currency") /\ IsDict(SpecOf(offer))) =>
              result.v = get_first_nonempty(
                             << DictGet(offer.v, "priceCurrency"),
                                DictGet(SpecOf(offer).v, "priceCurrency"),
                                DictGet(call.raw, "priceCurrency") >>)

IdentifierKeys == <<"gtin", "gtin8", "gtin12", "gtin13", "gtin14", "ean", "isbn">>

FirstKey(d) ==
    LET hits == { i \in DOMAIN IdentifierKeys : Truthy(DictGet(d, IdentifierKeys[i])) }
    IN  IF hits = {} THEN NoneV ELSE StrV(StrOf(d[IdentifierKeys[Min(hits)]]))

\* C28: the EAN is the first hit of: the keys gtin, gtin8, gtin12, gtin13,
\* gtin14, ean, isbn on the candidate root, then the same keys on the best
\* offer, then the value of the identifier / additionalProperty entry whose
\* propertyID or name matches an identifier token; a matching entry without
\* a value yields no EAN.
C28_EanSearchOrder ==
    Resolved("ean") =>
        LET raw == call.raw
            ids == Identifiers(raw)
            hits == { i \in DOMAIN ids :
                        ContainsAny(PropertyId(ids[i]),
                                    { <<"g", "t", "i", "n">>, <<"e", "a", "n">>,
                                      <<"i", "s", "b", "n">> }) }
            value == DictGet(ids[Min(hits)].v, "value")
        IN  result.v =
                IF ~IsNone(FirstKey(raw)) THEN FirstKey(raw)
                ELSE IF Offers(raw) # <<>> /\ ~IsNone(FirstKey(best_offer(raw).v))
                THEN FirstKey(best_offer(raw).v)
                ELSE IF hits = {} THEN NoneV
                ELSE IF Truthy(value) THEN StrV(StrOf(value))
                ELSE NoneV

\* C29: a candidate that is inactive because of its availability token or
\* because its validity dates exclude the current time stays inactive in the
\* returned Product whatever overrides are given.
C29_OverrideKeepsInactive ==
    (result.t = "product" /\ IsDict(Candidate(call))) =>
        LET raw == Candidate(call).v
            offer == best_offer(raw)
        IN  (\/ TokenInactive(offer)
             \/ ~TokenActive(offer) /\ DatesExclude(raw, offer, call.now))
                => result.is_active = BoolV(FALSE)

(***************************************************************************)
(* Properties of the crawl pipeline.                                       *)
(***************************************************************************)
Records(q) == SelectSeq(q, LAMBDA x : x.t = "product")

IsPrefix(a, b) == Len(a) <= Len(b) /\ a = SubSeq(b, 1, Len(a))

SentinelSent == \E i \in DOMAIN pushed : IsNone(pushed[i])

\* C13: every record a worker put on the results queue is eventually
\* yielded by crawl() exactly once and in the order of the queue, and
\* crawl() ends once it has read the sentinel.
C13_AllYieldedInOrder ==
    /\ [](IsPrefix(yielded, Records(pushed)))
    /\ SentinelSent ~> (consumer = "returned" /\ yielded = Records(pushed))

\* C14: the sentinel is put on the queue exactly once per crawl, only after
\* every worker has finished, so that nothing follows it; and it is put on
\* every way the producer thread can end, a failed crawl run included.
C14_SentinelOnceAtEnd ==
    /\ Cardinality({ i \in DOMAIN pushed : IsNone(pushed[i]) }) <= 1
    /\ SentinelSent =>
          /\ IsNone(pushed[Len(pushed)])
          /\ \A j \in Jobs : Finished(workers[j])
    /\ producer = "ended" => SentinelSent

\* The crawl ended as a whole: every per-URL crawler has finished on its
\* own, each record it emitted is on the queue ahead of the sentinel, the
\* failures are the crawlers that raised, and the sentinel was sent.
CrawlCompleted ==
    /\ producer = "ended"
    /\ SentinelSent
    /\ \A i \in Jobs :
          /\ Finished(workers[i])
          /\ \A k \in 1 .. workers[i].n :
                \E p \in 1 .. (Len(pushed) - 1) : pushed[p] = Item(i, k)
    /\ failures = { i \in Jobs : workers[i].st = "failed" }

\* C15: when one per-URL worker fails, every sibling still runs to its own
\* end and its records are put on the queue; the failure is collected and
\* reported, and neither aborts the crawl nor keeps the sentinel from
\* being sent.
C15_FailureIsolated ==
    /\ []((cfg.backend = "crawlee" /\ producer \in {"finally", "ended"} /\ Jobs # {})
            => \A i \in Jobs : Finished(workers[i]))
    /\ \A j \in 1 .. MaxJobs :
          (j \in Jobs /\ workers[j].st = "failed") ~> CrawlCompleted

\* C15 witness: one worker failed, a sibling emitted a record and ended
\* normally, the failure was reported and the crawl completed.
C15_Witness ==
    /\ CrawlCompleted
    /\ \E j \in Jobs, i \in Jobs :
          /\ workers[j].st = "failed"
          /\ workers[i].st = "done"
          /\ workers[i].n >= 1
    /\ failures # {}

\* C16: the number of workers inside their crawl section never exceeds
\* max_parallel_crawlers, however many start URLs there are, and every
\* scheduled worker eventually enters its crawl section.
C16_BoundedConcurrency ==
    /\ [](cfg # Idle => Cardinality(Inside \ {0}) <= cfg.limit)
    /\ \A j \in 1 .. MaxJobs :
          (j \in Jobs /\ workers[j].st = "created")
              ~> (j \in Jobs /\ workers[j].st # "created")

\* C16 witness: more start URLs than the limit, the limit reached, and a
\* worker still waiting for the semaphore.
C16_Witness ==
    /\ cfg # Idle
    /\ cfg.backend = "crawlee"
    /\ cfg.jobs > cfg.limit
    /\ Cardinality(Inside) = cfg.limit
    /\ \E j \in Jobs : workers[j].st = "created"

(***************************************************************************)
(* Properties of the structured-data normalizers.                          *)
(***************************************************************************)
Normalized == call.t = "normalize" /\ result # Pending

JsonPart == DictGet(call.data, "json-ld")
MicroPart == DictGet(call.data, "microdata")

\* Every mapping of a tree, at any depth, through lists and mappings.
RECURSIVE Mappings(_)
Mappings(x) ==
    IF IsList(x) THEN UNION { Mappings(x.v[i]) : i \in DOMAIN x.v }
    ELSE IF IsDict(x) THEN {x} \cup UNION { Mappings(x.v[k]) : k \in DOMAIN x.v }
    ELSE {}

JsonType(m) == Or(DictGet(m.v, "@type"), DictGet(m.v, "type"))

\* The JSON-LD entities of a tree: the mappings that carry a type.
JsonEntities(x) == { m \in Mappings(x) : Truthy(JsonType(m)) }

\* The Microdata items of a tree: the mappings with a type or with properties.
MicroEntities(x) ==
    { m \in Mappings(x) : Truthy(DictGet(m.v, "type")) \/ "properties" \in DOMAIN m.v }

\* The entity e stands for the JSON-LD mapping m / the Microdata item m: it
\* has m's normalized types and m's own properties.
JsonMatches(e, m) ==
    /\ IsEntity(e)
    /\ e.types = normalize_type_strings(JsonType(m))
    /\ (DOMAIN m.v \ JsonLdFramingKeys) \subseteq DOMAIN e.properties

MicroMatches(e, m) ==
    /\ IsEntity(e)
    /\ e.types = normalize_type_strings(DictGet(m.v, "type"))
    /\ (IF IsDict(DictGet(m.v, "properties")) THEN DOMAIN m.v["properties"].v ELSE {})
          \subseteq DOMAIN e.properties

InResultJson(m) == \E i \in DOMAIN result.v : JsonMatches(result.v[i], m)
InResultMicro(m) == \E i \in DOMAIN result.v : MicroMatches(result.v[i], m)

\* C17: every entity of the payload, at any nesting depth, also below an
\* untyped mapping or a top-level untyped node, is an element of the flat
\* list collect_candidates returns.
C17_EveryEntityFlattened ==
    Normalized =>
        /\ ~IsRaised(result)
        /\ \A m \in JsonEntities(JsonPart) : InResultJson(m)
        /\ \A m \in MicroEntities(MicroPart) : InResultMicro(m)

\* C18: for a JSON-LD node at any position that carries "@graph", the typed
\* nodes inside the @graph and the entities nested in them are elements of
\* the flat result, and the node that carries the @graph is still
\* processed itself.
C18_GraphSpliced ==
    Normalized =>
        \A g \in { m \in Mappings(JsonPart) : "@graph" \in DOMAIN m.v } :
            /\ \A n \in JsonEntities(g.v["@graph"]) : InResultJson(n)
            /\ Truthy(JsonType(g)) => InResultJson(g)

\* Every entity of a value, at any depth.
RECURSIVE EntitiesIn(_)
EntitiesIn(x) ==
    IF IsList(x) THEN UNION { EntitiesIn(x.v[i]) : i \in DOMAIN x.v }
    ELSE IF IsDict(x) THEN UNION { EntitiesIn(x.v[k]) : k \in DOMAIN x.v }
    ELSE IF IsEntity(x)
    THEN {x} \cup UNION { EntitiesIn(x.properties[k]) : k \in DOMAIN x.properties }
    ELSE {}

\* C19: no entity the normalizer produces, from either strategy and at any
\* depth, has @type, @context, @id, type or properties among the keys of
\* its own properties.
C19_NoFramingKeys ==
    (Normalized /\ ~IsRaised(result)) =>
        \A e \in EntitiesIn(result) :
            DOMAIN e.properties \cap {"@type", "@context", "@id", "type", "properties"} = {}

\* The top-level nodes of the payload and the well-formed ones among them.
TopJson == ensure_list(JsonPart)
TopMicro == ensure_list(MicroPart)

WellFormedJson(n) ==
    /\ IsDict(n)
    /\ "@graph" \notin DOMAIN n.v
    /\ IsStr(JsonType(n))
    /\ Strip(JsonType(n).v) # <<>>

WellFormedMicro(n) ==
    /\ IsDict(n)
    /\ IsStr(DictGet(n.v, "type"))
    /\ IsNone(DictGet(n.v, "properties")) \/ IsDict(DictGet(n.v, "properties"))

====
